---- MODULE Spec2Model ----
(***************************************************************************)
(* sapc: the compiler driver (main.cc), the recursive module compiler      *)
(* (compiler.cc) and the validator (validate.cc) as a state machine.       *)
(*                                                                         *)
(* One step of the machine is one step of the driver, or the build of one  *)
(* module-level declaration by Compiler::build: the loop position of       *)
(* Compiler::compile is the field pc of the frame on top of                *)
(* Compiler::state.  A schema object is identified by its index in the     *)
(* owning vector of Context (ctx.types, ctx.modules, ...); 0 is nullptr.   *)
(***************************************************************************)
EXTENDS Integers, Sequences, FiniteSets, TLC

\* ------------------------------------------------------------------ bounds
\* Depth of Compiler::state (nested compile calls) at which the call stack
\* is taken to be exhausted.
MaxDepth == 3
\* Declarations per source file, after its module declaration.
MaxDecls == 2
\* Most characters in the text of a source file.
MaxLen == 4
\* Most phrases (declarations, braces) in the tokens of a source file.
MaxStmts == 3
\* Most words (reserved words, comment marks, separators) in a text made of
\* words.
MaxWords == 4
\* Most items of an enum declaration given as tokens.
MaxItems == 3

nullptr == 0

\* ----------------------------------------------------------------- helpers
\* A local variable: In applied to the value v.
Let(v, In(_)) == In(v)

RECURSIVE FoldL(_, _, _)
FoldL(Op(_, _), acc, seq) ==
    IF seq = <<>> THEN acc ELSE FoldL(Op, Op(acc, Head(seq)), Tail(seq))

RECURSIVE Concat(_)
Concat(seqs) == IF seqs = <<>> THEN <<>> ELSE Head(seqs) \o Concat(Tail(seqs))

EmptyMap == [k \in {} |-> 0]
Put(m, k, v) == (k :> v) @@ m
Last(seq) == seq[Len(seq)]
Front(seq) == SubSeq(seq, 1, Len(seq) - 1)
NoDup(seq) == \A i, j \in DOMAIN seq : i # j => seq[i] # seq[j]
Range(seq) == {seq[i] : i \in DOMAIN seq}
\* index of the first element satisfying P, 0 when there is none
FirstIdx(seq, P(_)) ==
    IF \E i \in DOMAIN seq : P(seq[i])
    THEN CHOOSE i \in DOMAIN seq : P(seq[i]) /\ \A j \in 1..(i - 1) : ~P(seq[j])
    ELSE 0

\* --------------------------------------------------------------------- AST
\* ast::TypeRef.  ref and arraySize are optional: <<>> or a one-element
\* sequence.
TName(q) == [kind |-> "Name", name |-> q, ref |-> <<>>, typeParams |-> <<>>, arraySize |-> <<>>]
TPointer(r) == [kind |-> "Pointer", name |-> <<>>, ref |-> <<r>>, typeParams |-> <<>>, arraySize |-> <<>>]
TArray(r, size) == [kind |-> "Array", name |-> <<>>, ref |-> <<r>>, typeParams |-> <<>>, arraySize |-> size]
TGeneric(r, args) == [kind |-> "Generic", name |-> <<>>, ref |-> <<r>>, typeParams |-> args, arraySize |-> <<>>]
TTypeName == [kind |-> "TypeName", name |-> <<>>, ref |-> <<>>, typeParams |-> <<>>, arraySize |-> <<>>]

\* ast::Literal
LNull == [kind |-> "null", int |-> 0, str |-> "", id |-> <<>>, elems |-> <<>>]
LInt(n) == [kind |-> "int", int |-> n, str |-> "", id |-> <<>>, elems |-> <<>>]
LStr(t) == [kind |-> "string", int |-> 0, str |-> t, id |-> <<>>, elems |-> <<>>]
LId(q) == [kind |-> "id", int |-> 0, str |-> "", id |-> q, elems |-> <<>>]
LList(es) == [kind |-> "list", int |-> 0, str |-> "", id |-> <<>>, elems |-> es]
LBool(b) == [kind |-> "bool", int |-> IF b THEN 1 ELSE 0, str |-> "", id |-> <<>>, elems |-> <<>>]

\* ast::Annotation, ast::Field (also a union member), ast::EnumItem
Anno(q, args) == [name |-> q, args |-> args]
Field(ty, name, annos, init) == [name |-> name, type |-> ty, annotations |-> annos, init |-> init]
Item(name, value) == [name |-> name, value |-> value, annotations |-> <<>>]

\* ast::Declaration and its subclasses, as one record shape
Decl(kind, name) ==
    [kind |-> kind, name |-> name, customTag |-> "", baseType |-> <<>>, fields |-> <<>>,
     generics |-> <<>>, annotations |-> <<>>, items |-> <<>>, type |-> <<>>,
     value |-> LNull, decls |-> <<>>, tagKind |-> "Struct"]
ImportDecl(target) == Decl("Import", target)
ModuleDecl(name, annos) == [Decl("Module", name) EXCEPT !.annotations = annos]
CustomTagDecl(name, annos) == [Decl("CustomTag", name) EXCEPT !.annotations = annos]
NamespaceDecl(name, decls) == [Decl("Namespace", name) EXCEPT !.decls = decls]
StructDecl(name, generics, base, fields, annos) ==
    [Decl("Struct", name) EXCEPT !.generics = generics, !.baseType = base,
                                 !.fields = fields, !.annotations = annos]
UnionDecl(name, fields) == [Decl("Union", name) EXCEPT !.fields = fields]
AttributeDecl(name, fields) == [Decl("Attribute", name) EXCEPT !.fields = fields]
EnumDecl(name, items) == [Decl("Enum", name) EXCEPT !.items = items]
AliasDecl(name, target) == [Decl("Alias", name) EXCEPT !.type = target]
ConstantDecl(name, ty, value) == [Decl("Constant", name) EXCEPT !.type = <<ty>>, !.value = value]
Tagged(decl, tag) == [decl EXCEPT !.customTag = tag]

\* Location of an identifier: the file, the declaration and the position in
\* the declaration (0: the declaration's name, i: its i-th field).
Loc(file, decl, pos) == [file |-> file, decl |-> decl, pos |-> pos]
NoLoc == Loc("", "", 0)

\* ------------------------------------------------------------------ schema
\* schema::Value
VNull == [kind |-> "null", int |-> 0, str |-> "", type |-> 0, item |-> 0, elems |-> <<>>]
VInt(n) == [VNull EXCEPT !.kind = "int", !.int = n]
VStr(t) == [VNull EXCEPT !.kind = "string", !.str = t]
VType(t) == [VNull EXCEPT !.kind = "type", !.type = t]
VEnum(t, i) == [VNull EXCEPT !.kind = "enum", !.type = t, !.item = i]
VList(es) == [VNull EXCEPT !.kind = "list", !.elems = es]
VBool(b) == [VNull EXCEPT !.kind = "bool", !.int = IF b THEN 1 ELSE 0]

\* schema::Type and its subclasses, as one record shape
NewType(kind, name, qualifiedName, owner, scope, loc) ==
    [kind |-> kind, name |-> name, qualifiedName |-> qualifiedName, owner |-> owner,
     scope |-> scope, location |-> loc, annotations |-> <<>>, baseType |-> 0,
     fields |-> <<>>, generics |-> <<>>, members |-> <<>>, items |-> <<>>,
     ref |-> 0, to |-> 0, of |-> 0, typeParams |-> <<>>, parent |-> 0]
NewNamespace(name, qualifiedName, owner, scope) ==
    [name |-> name, qualifiedName |-> qualifiedName, owner |-> owner, scope |-> scope,
     types |-> <<>>, constants |-> <<>>, namespaces |-> <<>>]
NewModule(name, file, root) ==
    [name |-> name, file |-> file, root |-> root, imports |-> <<>>, types |-> <<>>,
     constants |-> <<>>, namespaces |-> <<>>, annotations |-> <<>>]
NewField(name, loc, ty) ==
    [name |-> name, location |-> loc, type |-> ty, defaultValue |-> <<>>, annotations |-> <<>>]

\* Compiler::Resolve
Resolve(kind, id, item) == [kind |-> kind, id |-> id, item |-> item]
REmpty == Resolve("Empty", 0, 0)

\* ------------------------------------------------------------------- state
VARIABLES
    lang,       \* the declarations source files are written with (fixed by Init)
    argv,       \* the command line, without argv[0]
    disk,       \* the file system: file -> the ast::ModuleUnit parse yields for it
    config,     \* main.cc Config, with the outcome of parse_arguments
    pc,         \* position of the driver
    ctx,        \* sapc::Context
    compiler,   \* Compiler
    log,        \* sapc::Log
    fault,      \* "none", or how the process died
    result,     \* what the driver produced: compiled, valid, exit code, files written
    lexer,      \* tokenize at work on the text of one file
    grammar     \* Grammar at work on the tokens of one file

vars == <<lang, argv, disk, config, pc, ctx, compiler, log, fault, result, lexer, grammar>>

\* The compiler's working state as one record, threaded through the
\* operators below.  ub is what a read through a null reference does in
\* this run: "trap" (the process dies) or "skip" (the read yields a value
\* that makes the caller return).
Cur == [ctx |-> ctx, comp |-> compiler, log |-> log, fault |-> fault, ub |-> "trap"]

Top(s) == Last(s.comp.state)
TopMod(s) == Top(s).mod
SetTop(s, frame) == [s EXCEPT !.comp.state[Len(s.comp.state)] = frame]

\* Log::error without line 24 of log.hh, the count of errors: a fault the
\* claim on the success of compile has to detect.
LogErrorUncounted(s, loc, msg) ==
    [s EXCEPT !.log.lines = Append(@, [sev |-> "error", msg |-> msg, loc |-> loc])]

\* Log::error / Log::info / Log::warn
LogError(s, loc, msg) ==
    [s EXCEPT !.log.lines = Append(@, [sev |-> "error", msg |-> msg, loc |-> loc]),
              !.log.countErrors = @ + 1]
LogInfo(s, loc, msg) ==
    [s EXCEPT !.log.lines = Append(@, [sev |-> "info", msg |-> msg, loc |-> loc])]
LogWarn(s, loc, msg) ==
    [s EXCEPT !.log.lines = Append(@, [sev |-> "warn", msg |-> msg, loc |-> loc])]

\* ------------------------------------------------------------- core module
typeIdName == "$sapc.typeid"
customTagName == "$sapc.customtag"
builtins == <<"string", "bool", "byte", "int", "float">>

\* Compiler::createCoreModule
createCoreModule(s) ==
    IF s.comp.coreModule # nullptr THEN s
    ELSE
        LET ns == Len(s.ctx.namespaces) + 1
            mod == Len(s.ctx.modules) + 1
            base == Len(s.ctx.types)
            prims == [i \in 1..Len(builtins) |->
                        NewType("Primitive", builtins[i], builtins[i], mod, ns, NoLoc)]
            typeId == NewType("TypeId", typeIdName, typeIdName, mod, ns, NoLoc)
            attr == [NewType("Attribute", customTagName, customTagName, mod, ns, NoLoc)
                        EXCEPT !.fields = <<NewField("tag", NoLoc, base + 1)>>]
            added == prims \o <<typeId, attr>>
            ids == [i \in 1..Len(added) |-> base + i]
        IN  [s EXCEPT
                !.ctx.namespaces = Append(@, [NewNamespace("", "", nullptr, nullptr)
                                                EXCEPT !.types = ids]),
                !.ctx.modules = Append(@, [NewModule("$sapc", "", ns) EXCEPT !.types = ids]),
                !.ctx.types = @ \o added,
                !.comp.coreModule = mod,
                !.comp.typeIdType = base + Len(builtins) + 1,
                !.comp.customTagAttr = base + Len(builtins) + 2]

\* Compiler::qualify
qualify(s, name) ==
    LET scope == s.ctx.namespaces[Last(Top(s).nsStack)]
    IN  IF scope.name = "" THEN name ELSE scope.qualifiedName \o "." \o name

\* ---------------------------------------------------------- make-available
\* The types a visit of makeAvailableRecurse goes on to, in the order of the
\* code.  chk tells whether the code tests the pointer for null
\* (makeAvailable) or dereferences it as it is (makeAvailableRecurse(*p)).
Visit(t, chk) == [t |-> t, chk |-> chk]
ValueVisits(v) == IF v.kind = "type" THEN <<Visit(v.type, TRUE)>> ELSE <<>>
AnnotationVisits(anno) ==
    <<Visit(anno.type, FALSE)>> \o Concat([i \in DOMAIN anno.args |-> ValueVisits(anno.args[i])])
AnnotationsVisits(annos) == Concat([i \in DOMAIN annos |-> AnnotationVisits(annos[i])])
FieldVisits(f) ==
    <<Visit(f.type, FALSE)>>
    \o Concat([i \in DOMAIN f.defaultValue |-> ValueVisits(f.defaultValue[i])])
    \o AnnotationsVisits(f.annotations)
MemberVisits(m) == <<Visit(m.type, FALSE)>> \o AnnotationsVisits(m.annotations)
TypeVisits(ty) ==
    AnnotationsVisits(ty.annotations) \o
    CASE ty.kind = "Struct" ->
            <<Visit(ty.baseType, TRUE)>> \o Concat([i \in DOMAIN ty.fields |-> FieldVisits(ty.fields[i])])
      [] ty.kind = "Attribute" -> Concat([i \in DOMAIN ty.fields |-> FieldVisits(ty.fields[i])])
      [] ty.kind = "Union" -> Concat([i \in DOMAIN ty.members |-> MemberVisits(ty.members[i])])
      [] ty.kind = "Alias" -> <<Visit(ty.ref, TRUE)>>
      [] ty.kind = "Pointer" -> <<Visit(ty.to, TRUE)>>
      [] ty.kind = "Array" -> <<Visit(ty.of, TRUE)>>
      [] ty.kind = "Specialized" ->
            <<Visit(ty.ref, TRUE)>> \o [i \in DOMAIN ty.typeParams |-> Visit(ty.typeParams[i], FALSE)]
      [] OTHER -> <<>>

\* Lines 558-563 without the test of importedTypes: a fault the claim on
\* duplicates in a type list has to detect.
AvailableOwned(s, t) == s.ctx.types[t].owner = TopMod(s)

\* Compiler::makeAvailableRecurse(schema::Type const&), lines 558-563:
\* whether the visit of type t returns at once.
Available(s, t) == s.ctx.types[t].owner = TopMod(s) \/ t \in Top(s).importedTypes

\* Compiler::makeAvailableRecurse(schema::Type const&) and its overloads for
\* Field, Member, Annotation and Value: the depth-first walk, with the
\* pending visits as an explicit list.
RECURSIVE makeAvailableRecurse(_, _)
makeAvailableRecurse(s, work) ==
    IF work = <<>> \/ s.fault # "none" THEN s
    ELSE IF Head(work).t = nullptr
    THEN IF Head(work).chk \/ s.ub = "skip" THEN makeAvailableRecurse(s, Tail(work))
         ELSE [s EXCEPT !.fault = "nullderef"]
    ELSE IF Available(s, Head(work).t) THEN makeAvailableRecurse(s, Tail(work))
    ELSE makeAvailableRecurse(
            [s EXCEPT !.comp.state[Len(s.comp.state)].importedTypes = @ \cup {Head(work).t},
                      !.ctx.modules[TopMod(s)].types = Append(@, Head(work).t)],
            TypeVisits(s.ctx.types[Head(work).t]) \o Tail(work))

\* Compiler::makeAvailable
makeAvailable(s, type) == makeAvailableRecurse(s, <<Visit(type, TRUE)>>)

\* --------------------------------------------------------- name resolution
\* A lookup yields the Resolve and the type findLocal makes available on
\* the way (0: none).
Found(rs, avail) == [rs |-> rs, avail |-> avail]
NotFound == Found(REmpty, nullptr)

\* Compiler::findLocal(QualIdSpan, schema::Type const*)
findLocalType(s, qualId, scope) ==
    LET ty == s.ctx.types[scope]
        item == FirstIdx(ty.items, LAMBDA it : it.name = qualId[1])
        gen == FirstIdx(ty.generics, LAMBDA g : s.ctx.types[g].name = qualId[1])
    IN  IF Len(qualId) # 1 THEN REmpty
        ELSE IF ty.kind = "Enum" /\ item # 0 THEN Resolve("EnumItem", scope, item)
        ELSE IF ty.kind = "Struct" /\ gen # 0 THEN Resolve("Type", ty.generics[gen], 0)
        ELSE REmpty

\* Compiler::findLocal(QualIdSpan, schema::Namespace const*), lines 697-709:
\* an identifier of one component
findLocalName(s, id, ns) ==
    LET n == FirstIdx(ns.namespaces, LAMBDA x : s.ctx.namespaces[x].name = id)
        t == FirstIdx(ns.types, LAMBDA x : s.ctx.types[x].name = id)
        c == FirstIdx(ns.constants, LAMBDA x : s.ctx.constants[x].name = id)
    IN  IF n # 0 THEN Found(Resolve("Namespace", ns.namespaces[n], 0), nullptr)
        ELSE IF t # 0 THEN Found(Resolve("Type", ns.types[t], 0), ns.types[t])
        ELSE IF c # 0 THEN Found(Resolve("Constant", ns.constants[c], 0), nullptr)
        ELSE NotFound

\* Compiler::findLocal(QualIdSpan, schema::Namespace const*)
RECURSIVE findLocalNamespace(_, _, _)
findLocalNamespace(s, qualId, scope) ==
    IF Len(qualId) = 1 THEN findLocalName(s, qualId[1], s.ctx.namespaces[scope])
    ELSE Let(FirstIdx(s.ctx.namespaces[scope].namespaces,
                      LAMBDA n : /\ s.ctx.namespaces[n].name = qualId[1]
                                 /\ findLocalNamespace(s, Tail(qualId), n).rs.kind # "Empty"),
             LAMBDA n :
                IF n # 0
                THEN findLocalNamespace(s, Tail(qualId), s.ctx.namespaces[scope].namespaces[n])
                ELSE Let(FirstIdx(s.ctx.namespaces[scope].types,
                                  LAMBDA t : /\ s.ctx.types[t].name = qualId[1]
                                             /\ findLocalType(s, Tail(qualId), t).kind # "Empty"),
                         LAMBDA t :
                            IF t = 0 THEN NotFound
                            ELSE Found(findLocalType(s, Tail(qualId),
                                                     s.ctx.namespaces[scope].types[t]),
                                       s.ctx.namespaces[scope].types[t])))

\* Compiler::findGlobal(QualIdSpan, schema::Module const*): the modules
\* whose root namespace is searched, in the order of the search.
searchOrder(s, scope) ==
    <<scope>> \o s.ctx.modules[scope].imports
    \o (IF s.comp.coreModule # nullptr THEN <<s.comp.coreModule>> ELSE <<>>)

\* Compiler::findGlobal(QualIdSpan, schema::Module const*)
findGlobalModule(s, qualId, scope) ==
    Let(FirstIdx(searchOrder(s, scope),
                 LAMBDA m : findLocalNamespace(s, qualId, s.ctx.modules[m].root).rs.kind # "Empty"),
        LAMBDA i :
            IF i = 0 THEN NotFound
            ELSE findLocalNamespace(s, qualId, s.ctx.modules[searchOrder(s, scope)[i]].root))

\* Compiler::findGlobal(QualIdSpan, schema::Namespace const*)
RECURSIVE findGlobalNamespace(_, _, _)
findGlobalNamespace(s, qualId, scope) ==
    Let(findLocalNamespace(s, qualId, scope),
        LAMBDA own :
            IF own.rs.kind # "Empty" THEN own
            ELSE IF s.ctx.namespaces[scope].scope # nullptr
            THEN findGlobalNamespace(s, qualId, s.ctx.namespaces[scope].scope)
            ELSE findGlobalModule(s, qualId, s.ctx.namespaces[scope].owner))

\* Compiler::findGlobal(QualIdSpan, schema::Type const*)
findGlobalType(s, qualId, scope) ==
    Let(findLocalType(s, qualId, scope),
        LAMBDA own :
            IF own.kind # "Empty" THEN Found(own, nullptr)
            ELSE IF s.ctx.types[scope].scope # nullptr
            THEN findGlobalNamespace(s, qualId, s.ctx.types[scope].scope)
            ELSE findGlobalModule(s, qualId, s.ctx.types[scope].owner))

\* An operator's result: the state it leaves and the value it returns.
Ret(s, v) == [s |-> s, v |-> v]

\* Compiler::resolve, lines 780-781: resolveCache.insert
cacheResolve(s, qualId, rs) ==
    IF rs.kind # "Empty"
    THEN [s EXCEPT !.comp.state[Len(s.comp.state)].resolveCache = Put(@, qualId, rs)]
    ELSE s

\* Compiler::resolve without the lookup of lines 770-772: a fault the claim
\* on the stability of resolution has to detect.
resolveUncached(s, qualId, scope) ==
    Let(IF scope # nullptr THEN findGlobalType(s, qualId, scope)
        ELSE findGlobalModule(s, qualId, TopMod(s)),
        LAMBDA f :
            Ret(makeAvailable(cacheResolve(makeAvailable(s, f.avail), qualId, f.rs),
                              IF f.rs.kind = "Type" THEN f.rs.id ELSE nullptr),
                f.rs))

\* Compiler::resolve
resolve(s, qualId, scope) ==
    IF qualId \in DOMAIN Top(s).resolveCache
    THEN Ret(s, Top(s).resolveCache[qualId])
    ELSE Let(IF scope # nullptr THEN findGlobalType(s, qualId, scope)
             ELSE findGlobalModule(s, qualId, TopMod(s)),
             LAMBDA f :
                Ret(makeAvailable(cacheResolve(makeAvailable(s, f.avail), qualId, f.rs),
                                  IF f.rs.kind = "Type" THEN f.rs.id ELSE nullptr),
                    f.rs))

\* Compiler::requireType(QualIdSpan, schema::Type const*)
requireTypeId(s, qualId, scope, loc) ==
    Let(resolve(s, qualId, scope),
        LAMBDA r :
            IF r.v.kind = "Empty" THEN Ret(r.s, nullptr)
            ELSE IF r.v.kind = "Type" THEN Ret(r.s, r.v.id)
            ELSE Ret(LogError(r.s, loc, "does not name a type"), nullptr))

\* ------------------------------------------------------- type construction
\* ctx.types.emplace_back and top.mod->types.push_back: the new type's
\* index, and the state holding it.
AllocType(s, type) ==
    Ret([s EXCEPT !.ctx.types = Append(@, type),
                  !.ctx.modules[TopMod(s)].types = Append(@, Len(s.ctx.types) + 1)],
        Len(s.ctx.types) + 1)

\* Compiler::createArrayType
createArrayType(s, of, loc) ==
    IF of \in DOMAIN s.comp.arrayTypeMap THEN Ret(s, s.comp.arrayTypeMap[of])
    ELSE Let(AllocType(s, [NewType("Array", s.ctx.types[of].name \o "[]",
                                   s.ctx.types[of].qualifiedName \o "[]",
                                   TopMod(s), s.ctx.types[of].scope, loc) EXCEPT !.of = of]),
             LAMBDA a : Ret([a.s EXCEPT !.comp.arrayTypeMap = Put(@, of, a.v)], a.v))

\* createPointerType without the lookup of lines 841-845: a fault the
\* claim on interning has to detect.
createPointerTypeFresh(s, to, loc) ==
    Let(AllocType(s, [NewType("Pointer", s.ctx.types[to].name \o "*",
                              s.ctx.types[to].qualifiedName \o "*",
                              TopMod(s), s.ctx.types[to].scope, loc) EXCEPT !.to = to]),
        LAMBDA a : Ret([a.s EXCEPT !.comp.pointerTypeMap = Put(@, to, a.v)], a.v))

\* Compiler::createPointerType
createPointerType(s, to, loc) ==
    IF to \in DOMAIN s.comp.pointerTypeMap THEN Ret(s, s.comp.pointerTypeMap[to])
    ELSE Let(AllocType(s, [NewType("Pointer", s.ctx.types[to].name \o "*",
                                   s.ctx.types[to].qualifiedName \o "*",
                                   TopMod(s), s.ctx.types[to].scope, loc) EXCEPT !.to = to]),
             LAMBDA a : Ret([a.s EXCEPT !.comp.pointerTypeMap = Put(@, to, a.v)], a.v))

\* std::hash<std::string> and sapc::hash_combine.  The hash is taken to be
\* free of collisions: a hash value is the sequence of the strings hashed
\* into it, so two keys are equal exactly when they were computed from the
\* same strings in the same order.
StdHash(str) == <<str>>
hash_combine(val, seed) == Append(seed, val)

\* Compiler::createSpecializedType, lines 868-870: the key
specHash(s, gen, typeParams) ==
    FoldL(LAMBDA h, p : hash_combine(s.ctx.types[p].qualifiedName, h),
          StdHash(s.ctx.types[gen].qualifiedName), typeParams)

\* Compiler::createSpecializedType, lines 883-886
genName(s, typeParams) ==
    "<" \o FoldL(LAMBDA n, p : n \o s.ctx.types[p].qualifiedName, "", typeParams) \o ">"

\* Compiler::createSpecializedType
createSpecializedType(s, gen, typeParams, loc) ==
    IF specHash(s, gen, typeParams) \in DOMAIN s.comp.specializedTypeMap
    THEN Ret(s, s.comp.specializedTypeMap[specHash(s, gen, typeParams)])
    ELSE Let(AllocType(s, [NewType("Specialized",
                                   s.ctx.types[gen].name \o genName(s, typeParams),
                                   s.ctx.types[gen].qualifiedName \o genName(s, typeParams),
                                   TopMod(s), s.ctx.types[gen].scope, loc)
                              EXCEPT !.ref = gen, !.typeParams = typeParams]),
             LAMBDA a : Ret([a.s EXCEPT !.comp.specializedTypeMap =
                                            Put(@, specHash(s, gen, typeParams), a.v)], a.v))

\* Compiler::resolveType and Compiler::requireType(ast::TypeRef const&, ...)
RECURSIVE resolveType(_, _, _, _)
RECURSIVE requireType(_, _, _, _)
resolveType(s, ref, scope, loc) ==
    CASE ref.kind = "TypeName" ->
            Ret(makeAvailable(s, s.comp.typeIdType), s.comp.typeIdType)
      [] ref.kind = "Name" ->
            Let(resolve(s, ref.name, scope),
                LAMBDA r : IF r.v.kind = "Type" THEN Ret(makeAvailable(r.s, r.v.id), r.v.id)
                           ELSE Ret(r.s, nullptr))
      [] ref.kind = "Array" ->
            Let(resolveType(s, ref.ref[1], scope, loc),
                LAMBDA r : IF r.v # nullptr THEN createArrayType(r.s, r.v, loc) ELSE r)
      [] ref.kind = "Pointer" ->
            Let(resolveType(s, ref.ref[1], scope, loc),
                LAMBDA r : IF r.v # nullptr THEN createPointerType(r.s, r.v, loc) ELSE r)
      [] ref.kind = "Generic" ->
            Let(resolveType(s, ref.ref[1], scope, loc),
                LAMBDA r :
                    IF r.v = nullptr THEN r
                    ELSE Let(FoldL(LAMBDA acc, refParam :
                                    \* the loop over ref.typeParams, left at the first null
                                    IF acc.failed THEN acc
                                    ELSE Let(requireType(acc.s, refParam, scope, loc),
                                             LAMBDA p :
                                                [s |-> p.s, failed |-> p.v = nullptr,
                                                 typeParams |->
                                                    IF p.v = nullptr THEN acc.typeParams
                                                    ELSE Append(acc.typeParams, p.v)]),
                                   [s |-> r.s, failed |-> FALSE, typeParams |-> <<>>],
                                   ref.typeParams),
                             LAMBDA ps :
                                IF ps.failed THEN Ret(ps.s, nullptr)
                                ELSE createSpecializedType(ps.s, r.v, ps.typeParams, loc)))
      [] OTHER -> Ret(s, nullptr)

requireType(s, ref, scope, loc) ==
    Let(resolveType(s, ref, scope, loc),
        LAMBDA r : IF r.v # nullptr THEN r ELSE Ret(LogError(r.s, loc, "type not found"), nullptr))

\* ------------------------------------------------------------- translation
\* Compiler::translate(ast::Literal const&)
RECURSIVE translateLiteral(_, _, _)
translateLiteral(s, lit, loc) ==
    CASE lit.kind = "id" ->
            Let(resolve(s, lit.id, nullptr),
                LAMBDA r :
                    CASE r.v.kind = "Empty" -> Ret(LogError(r.s, loc, "not found"), VNull)
                      [] r.v.kind = "Type" -> Ret(r.s, VType(r.v.id))
                      [] r.v.kind = "EnumItem" -> Ret(r.s, VEnum(r.v.id, r.v.item))
                      [] r.v.kind = "Constant" -> Ret(r.s, r.s.ctx.constants[r.v.id].value)
                      [] OTHER ->
                            Ret(LogInfo(LogError(r.s, loc, "names a namespace"),
                                        NoLoc, "namespace declared here"), VNull))
      [] lit.kind = "list" ->
            Let(FoldL(LAMBDA acc, elem :
                        Let(translateLiteral(acc.s, elem, loc),
                            LAMBDA e : Ret(e.s, Append(acc.v, e.v))),
                      Ret(s, <<>>), lit.elems),
                LAMBDA r : Ret(r.s, VList(r.v)))
      [] lit.kind = "int" -> Ret(s, VInt(lit.int))
      [] lit.kind = "string" -> Ret(s, VStr(lit.str))
      [] lit.kind = "bool" -> Ret(s, VBool(lit.int = 1))
      [] OTHER -> Ret(s, VNull)

NewAnnotation(type, loc, args) == [type |-> type, location |-> loc, args |-> args]

\* The loop of lines 964-974 over the arguments given instead of the fields
\* of the attribute: a fault the claim on the length of the argument list
\* has to detect.
BindArgumentsGiven(s, anno, attr, loc) ==
    FoldL(LAMBDA acc, arg :
            Let(translateLiteral(acc.s, arg, loc),
                LAMBDA a : Ret(a.s, Append(acc.v, a.v))),
          Ret(s, <<>>), anno.args)

\* The loop of lines 964-974 without the error of line 970: a fault the claim
\* on the binding of arguments has to detect.
BindArgumentsSilent(s, anno, attr, loc) ==
    FoldL(LAMBDA acc, index :
            IF index <= Len(anno.args)
            THEN Let(translateLiteral(acc.s, anno.args[index], loc),
                     LAMBDA a : Ret(a.s, Append(acc.v, a.v)))
            ELSE IF s.ctx.types[attr].fields[index].defaultValue # <<>>
            THEN Ret(acc.s, Append(acc.v, s.ctx.types[attr].fields[index].defaultValue[1]))
            ELSE Ret(acc.s, Append(acc.v, VNull)),
          Ret(s, <<>>), [i \in 1..Len(s.ctx.types[attr].fields) |-> i])

\* Compiler::translate(ast::Annotation const&), lines 964-974: the loop that
\* binds the arguments to the fields of the attribute.
BindArguments(s, anno, attr, loc) ==
    FoldL(LAMBDA acc, index :
            IF index <= Len(anno.args)
            THEN Let(translateLiteral(acc.s, anno.args[index], loc),
                     LAMBDA a : Ret(a.s, Append(acc.v, a.v)))
            ELSE IF s.ctx.types[attr].fields[index].defaultValue # <<>>
            THEN Ret(acc.s, Append(acc.v, s.ctx.types[attr].fields[index].defaultValue[1]))
            ELSE Ret(LogError(acc.s, loc, "missing parameter"), Append(acc.v, VNull)),
          Ret(s, <<>>), [i \in 1..Len(s.ctx.types[attr].fields) |-> i])

\* Compiler::translate(ast::Annotation const&)
translateAnnotation(s, anno, loc) ==
    Let(requireTypeId(s, anno.name, nullptr, loc),
        LAMBDA t :
            IF t.v = nullptr
            THEN Ret(LogError(t.s, loc, "attribute not found"), NewAnnotation(nullptr, loc, <<>>))
            ELSE IF t.s.ctx.types[t.v].kind # "Attribute"
            THEN Ret(LogInfo(LogError(t.s, loc, "annotation type is not an attribute"),
                             t.s.ctx.types[t.v].location, "type declared here"),
                     NewAnnotation(t.v, loc, <<>>))
            ELSE IF Len(anno.args) > Len(t.s.ctx.types[t.v].fields)
            THEN Ret(LogInfo(LogError(t.s, loc, "too many arguments for attribute"),
                             t.s.ctx.types[t.v].location, "attribute declared here"),
                     NewAnnotation(t.v, loc, <<>>))
            ELSE Let(BindArguments(t.s, anno, t.v, loc),
                     LAMBDA b : Ret(b.s, NewAnnotation(t.v, loc, b.v))))

\* Compiler::translate(std::vector<std::unique_ptr<schema::Annotation>>&, ...):
\* the annotations translated in order, to be appended to the target.
translateAnnotations(s, annotations, loc) ==
    FoldL(LAMBDA acc, anno :
            Let(translateAnnotation(acc.s, anno, loc),
                LAMBDA a : Ret(a.s, Append(acc.v, a.v))),
          Ret(s, <<>>), annotations)

\* ------------------------------------------------------------------ build
SetType(s, type, f, v) == [s EXCEPT !.ctx.types[type][f] = v]
\* mod.types.push_back(type); nsStack.back()->types.push_back(type)
PublishType(s, type) ==
    [s EXCEPT !.ctx.modules[TopMod(s)].types = Append(@, type),
              !.ctx.namespaces[Last(Top(s).nsStack)].types = Append(@, type)]

\* The field a build of a field declaration adds to its type.
MadeField(fieldDecl, loc, type, annos, init) ==
    [NewField(fieldDecl.name, loc, type) EXCEPT !.annotations = annos, !.defaultValue = init]

\* Compiler::build(SchemaType&, ast::Field const&)
buildField(s, type, fieldDecl, loc) ==
    Let(requireType(s, fieldDecl.type, type, loc),
        LAMBDA t :
            Let(translateAnnotations(t.s, fieldDecl.annotations, loc),
                LAMBDA a :
                    IF fieldDecl.init = <<>>
                    THEN [a.s EXCEPT !.ctx.types[type].fields =
                                        Append(@, MadeField(fieldDecl, loc, t.v, a.v, <<>>))]
                    ELSE Let(translateLiteral(a.s, fieldDecl.init[1], loc),
                             LAMBDA d :
                                [d.s EXCEPT !.ctx.types[type].fields =
                                        Append(@, MadeField(fieldDecl, loc, t.v, a.v, <<d.v>>))])))

\* Compiler::build(schema::TypeUnion&, ast::Member const&)
buildMember(s, type, memberDecl, loc) ==
    Let(requireType(s, memberDecl.type, type, loc),
        LAMBDA t :
            Let(translateAnnotations(t.s, memberDecl.annotations, loc),
                LAMBDA a :
                    [a.s EXCEPT !.ctx.types[type].members =
                        Append(@, [name |-> memberDecl.name, location |-> loc,
                                   type |-> t.v, annotations |-> a.v])]))

\* Compiler::build(schema::TypeEnum&, ast::EnumItem const&)
buildItem(s, type, itemDecl, loc) ==
    Let(translateAnnotations(s, itemDecl.annotations, loc),
        LAMBDA a :
            [a.s EXCEPT !.ctx.types[type].items =
                Append(@, [name |-> itemDecl.name, location |-> loc, parent |-> type,
                           value |-> itemDecl.value, annotations |-> a.v])])

\* The loops over the fields, members and items of a declaration.
BuildAll(buildOne(_, _, _, _), s, type, decls, file, name) ==
    FoldL(LAMBDA acc, i : buildOne(acc, type, decls[i], Loc(file, name, i)),
          s, [i \in 1..Len(decls) |-> i])

\* The declaration's type, allocated and named as every build overload does.
BeginType(s, kind, d) ==
    Ret([s EXCEPT !.ctx.types =
                    Append(@, NewType(kind, d.name, qualify(s, d.name), TopMod(s),
                                      Last(Top(s).nsStack), Loc(Top(s).unit, d.name, 0)))],
        Len(s.ctx.types) + 1)

\* translate(type->annotations, annotations)
Annotate(s, type, annotations, loc) ==
    Let(translateAnnotations(s, annotations, loc),
        LAMBDA a : [a.s EXCEPT !.ctx.types[type].annotations = @ \o a.v])

\* Compiler::build(ast::StructDecl const&), lines 258-263: the
\* $sapc.customtag annotation
TagAnnotation(s, type, tag) ==
    [s EXCEPT !.ctx.types[type].annotations =
                Append(@, NewAnnotation(s.comp.customTagAttr, NoLoc, <<VStr(tag)>>))]

\* Compiler::build(ast::StructDecl const&), lines 253-264: the annotations
\* of the custom tag's declaration and the $sapc.customtag annotation.
\* The ast::CustomTagDecl the map points to is owned by the State of the
\* file that declared it (compiler.cc:458, 472): once compile has popped that
\* State (line 478) the pointer dangles, and the read of line 256 either
\* ends the process or finds the declaration still in place.
CustomTagAnnotations(s, type, tag, loc) ==
    IF tag = "" THEN s
    ELSE IF tag \notin DOMAIN s.comp.customTagMap THEN [s EXCEPT !.fault = "assert"]
    ELSE IF /\ \A i \in DOMAIN s.comp.state : s.comp.state[i].unit # s.comp.customTagMap[tag].unit
            /\ s.ub = "trap"
    THEN [s EXCEPT !.fault = "dangling"]
    ELSE TagAnnotation(makeAvailable(Annotate(s, type, s.comp.customTagMap[tag].decl.annotations,
                                              loc),
                                     s.comp.customTagAttr),
                       type, tag)

\* Compiler::build(ast::StructDecl const&), lines 266-279: one Generic type
\* per type parameter.
buildGenerics(s, type, generics) ==
    FoldL(LAMBDA acc, gen :
            [acc EXCEPT
                !.ctx.types =
                    Append([@ EXCEPT ![type].generics = Append(@, Len(acc.ctx.types) + 1)],
                           [NewType("Generic", gen, acc.ctx.types[type].qualifiedName \o "." \o gen,
                                    acc.ctx.types[type].owner, acc.ctx.types[type].scope, NoLoc)
                               EXCEPT !.parent = type]),
                !.ctx.modules[TopMod(acc)].types = Append(@, Len(acc.ctx.types) + 1)],
          s, generics)

\* Compiler::build(ast::StructDecl const&), lines 250-251: the base type
buildBase(s, type, d, loc) ==
    IF d.baseType = <<>> THEN s
    ELSE Let(requireType(s, d.baseType[1], nullptr, loc),
             LAMBDA b : SetType(b.s, type, "baseType", b.v))

\* Compiler::build(ast::StructDecl const&)
buildStruct(s, d) ==
    Let(BeginType(s, "Struct", d),
        LAMBDA a :
            PublishType(
                BuildAll(buildField,
                         buildGenerics(
                            CustomTagAnnotations(
                                Annotate(buildBase(a.s, a.v, d, Loc(Top(s).unit, d.name, 0)),
                                         a.v, d.annotations, Loc(Top(s).unit, d.name, 0)),
                                a.v, d.customTag, Loc(Top(s).unit, d.name, 0)),
                            a.v, d.generics),
                         a.v, d.fields, Top(s).unit, d.name),
                a.v))

\* Compiler::build(ast::AliasDecl const&), lines 304-305: the target type
buildTarget(s, type, d, loc) ==
    IF d.type = <<>> THEN s
    ELSE Let(requireType(s, d.type[1], type, loc),
             LAMBDA r : SetType(r.s, type, "ref", r.v))

\* Compiler::build(ast::AliasDecl const&)
buildAlias(s, d) ==
    Let(BeginType(s, "Alias", d),
        LAMBDA a :
            PublishType(
                buildTarget(Annotate(a.s, a.v, d.annotations, Loc(Top(s).unit, d.name, 0)),
                            a.v, d, Loc(Top(s).unit, d.name, 0)),
                a.v))

\* Compiler::build(ast::AttributeDecl const&)
buildAttribute(s, d) ==
    Let(BeginType(s, "Attribute", d),
        LAMBDA a :
            PublishType(
                BuildAll(buildField,
                         Annotate(a.s, a.v, d.annotations, Loc(Top(s).unit, d.name, 0)),
                         a.v, d.fields, Top(s).unit, d.name),
                a.v))

\* Compiler::build(ast::EnumDecl const&)
buildEnum(s, d) ==
    Let(BeginType(s, "Enum", d),
        LAMBDA a :
            PublishType(
                BuildAll(buildItem,
                         Annotate(a.s, a.v, d.annotations, Loc(Top(s).unit, d.name, 0)),
                         a.v, d.items, Top(s).unit, d.name),
                a.v))

\* Compiler::build(ast::UnionDecl const&)
buildUnion(s, d) ==
    Let(BeginType(s, "Union", d),
        LAMBDA a :
            PublishType(
                BuildAll(buildMember,
                         Annotate(a.s, a.v, d.annotations, Loc(Top(s).unit, d.name, 0)),
                         a.v, d.fields, Top(s).unit, d.name),
                a.v))

\* The constant a build of a constant declaration adds.
MadeConstant(s, d, type, value) ==
    [name |-> d.name, qualifiedName |-> qualify(s, d.name), location |-> Loc(Top(s).unit, d.name, 0),
     owner |-> TopMod(s), scope |-> Last(Top(s).nsStack), type |-> type, value |-> value,
     annotations |-> <<>>]

\* Compiler::build(ast::ConstantDecl const&)
buildConstant(s, d) ==
    Let(requireType(s, d.type[1], nullptr, Loc(Top(s).unit, d.name, 0)),
        LAMBDA t :
            Let(translateLiteral(t.s, d.value, Loc(Top(s).unit, d.name, 0)),
                LAMBDA v :
                    [v.s EXCEPT
                        !.ctx.constants = Append(@, MadeConstant(s, d, t.v, v.v)),
                        !.ctx.modules[TopMod(s)].constants = Append(@, Len(s.ctx.constants) + 1),
                        !.ctx.namespaces[Last(Top(s).nsStack)].constants =
                            Append(@, Len(s.ctx.constants) + 1)]))

\* Compiler::build(ast::NamespaceDecl const&), lines 217-227: the namespace
\* is made and entered.
enterNamespace(s, d) ==
    [s EXCEPT
        !.ctx.namespaces =
            Append([@ EXCEPT ![Last(Top(s).nsStack)].namespaces =
                                Append(@, Len(s.ctx.namespaces) + 1)],
                   NewNamespace(d.name, qualify(s, d.name), TopMod(s), Last(Top(s).nsStack))),
        !.ctx.modules[TopMod(s)].namespaces = Append(@, Len(s.ctx.namespaces) + 1),
        !.comp.state[Len(s.comp.state)].nsStack = Append(@, Len(s.ctx.namespaces) + 1)]

\* Compiler::build(ast::NamespaceDecl const&), line 232: nsStack.pop_back()
leaveNamespace(s) == [s EXCEPT !.comp.state[Len(s.comp.state)].nsStack = Front(@)]

\* Compiler::build(ast::Declaration const&), lines 203-206: a module
\* declaration
buildModule(s, d) ==
    Let(translateAnnotations(s, d.annotations, Loc(Top(s).unit, d.name, 0)),
        LAMBDA a : [a.s EXCEPT !.ctx.modules[TopMod(s)].annotations = @ \o a.v])

\* Compiler::build(ast::Declaration const&) for every kind but Import, and
\* Compiler::build(ast::NamespaceDecl const&) with the declarations nested
\* in the namespace.
RECURSIVE build(_, _)
build(s, d) ==
    IF s.fault # "none" THEN s
    ELSE CASE d.kind = "Namespace" -> leaveNamespace(FoldL(build, enterNamespace(s, d), d.decls))
           [] d.kind = "Struct" -> buildStruct(s, d)
           [] d.kind = "Alias" -> buildAlias(s, d)
           [] d.kind = "Union" -> buildUnion(s, d)
           [] d.kind = "Attribute" -> buildAttribute(s, d)
           [] d.kind = "Enum" -> buildEnum(s, d)
           [] d.kind = "Constant" -> buildConstant(s, d)
           [] d.kind = "Module" -> buildModule(s, d)
           [] d.kind = "CustomTag" ->
                \* unordered_map::insert keeps the entry of a key it already holds
                IF d.name \in DOMAIN s.comp.customTagMap THEN s
                ELSE [s EXCEPT !.comp.customTagMap =
                                    Put(@, d.name, [decl |-> d, unit |-> Top(s).unit])]
           [] OTHER -> [s EXCEPT !.fault = "assert"]

\* --------------------------------------------------------------- validator
\* The fields of an aggregate: the members of a union are its field list.
aggregateFields(ty) == IF ty.kind = "Union" THEN ty.members ELSE ty.fields

\* Validator::validate(schema::TypeAggregate const&), line 73: the index of
\* the field that fields.insert finds in the map, 0 when it inserts.
firstNamed(fields, i) ==
    FirstIdx(SubSeq(fields, 1, i - 1), LAMBDA f : f.name = fields[i].name)

\* Validator::validate(schema::TypeAggregate const&)
validateAggregate(s, type) ==
    FoldL(LAMBDA acc, i :
            IF firstNamed(aggregateFields(s.ctx.types[type]), i) = 0 THEN acc
            ELSE Ret(LogInfo(LogError(acc.s, aggregateFields(s.ctx.types[type])[i].location,
                                      "duplicate field"),
                             aggregateFields(s.ctx.types[type])[
                                firstNamed(aggregateFields(s.ctx.types[type]), i)].location,
                             "first declaration of field"),
                     FALSE),
          Ret(s, TRUE), [i \in 1..Len(aggregateFields(s.ctx.types[type])) |-> i])

\* Validator::validate(schema::Type const&)
validateType(s, type) ==
    IF s.ctx.types[type].kind \in {"Struct", "Attribute", "Union"}
    THEN validateAggregate(s, type)
    ELSE Ret(s, TRUE)

\* Validator::validate(schema::Module const&), lines 35-39
validateName(s, m) ==
    IF m.name = ""
    THEN Ret(LogError(s, Loc(m.file, "", 0), "module name is missing"), FALSE)
    ELSE Ret(s, TRUE)

\* Validator::validate(schema::Module const&), lines 41-44
validateStem(r, m) ==
    IF m.file # m.name
    THEN Ret(LogWarn(r.s, Loc(m.file, "", 0), "module name does not match filename"), r.v)
    ELSE r

\* Validator::validate(schema::Module const&)
validate(s, mod) ==
    FoldL(LAMBDA acc, type :
            Let(validateType(acc.s, type),
                LAMBDA v : Ret(v.s, acc.v \/ v.v)),      \* success |= validate(*type)
          validateStem(validateName(s, s.ctx.modules[mod]), s.ctx.modules[mod]),
          s.ctx.namespaces[s.ctx.modules[mod].root].types)

\* ------------------------------------------------------------------ driver
\* A command-line argument: a prefix ("", "-", "--" or "/"), an option name
\* and the text after it, whose concatenation is the argument.
Arg(prefix, name, rest) == [prefix |-> prefix, name |-> name, rest |-> rest]
ArgText(arg) == arg.prefix \o arg.name \o arg.rest

NewConfig == [input |-> "", output |-> "", deps |-> "", search |-> <<>>, mode |-> "Compile"]

\* main.cc parse_arguments: the body of the loop for one argument.  acc
\* holds config, the local variables mode and allow_options, and ok (FALSE
\* once the function has returned false).
parse_argument(acc, arg) ==
    LET option == arg.name \o arg.rest      \* arg after arg.substr(2) or arg.substr(1)
        isOption == acc.allow_options /\ arg.prefix \in {"--", "/", "-"}
    IN  IF ~acc.ok THEN acc
        ELSE CASE acc.mode = "OutputFile" ->
                    [acc EXCEPT !.config.output = ArgText(arg), !.mode = "None"]
               [] acc.mode = "DepsFile" ->
                    [acc EXCEPT !.config.deps = ArgText(arg), !.mode = "None"]
               [] acc.mode = "IncludePath" ->
                    [acc EXCEPT !.config.search = Append(@, ArgText(arg)), !.mode = "None"]
               [] OTHER ->
                    IF ArgText(arg) = "--" THEN [acc EXCEPT !.allow_options = FALSE]
                    ELSE IF ~isOption
                    THEN IF acc.config.input = ""
                         THEN [acc EXCEPT !.config.input = ArgText(arg)]
                         ELSE [acc EXCEPT !.ok = FALSE]
                    ELSE IF option \in {"i", "input"} THEN [acc EXCEPT !.mode = "InputFile"]
                    ELSE IF option \in {"o", "output"} THEN [acc EXCEPT !.mode = "OutputFile"]
                    ELSE IF option \in {"d", "deps"} THEN [acc EXCEPT !.mode = "DepsFile"]
                    ELSE IF option \in {"h", "help"} THEN [acc EXCEPT !.config.mode = "Help"]
                    ELSE IF arg.name = "I" /\ arg.rest # ""
                    THEN [acc EXCEPT !.config.search = Append(@, arg.rest)]
                    ELSE IF arg.name = "I" /\ arg.rest = "" THEN [acc EXCEPT !.mode = "IncludePath"]
                    ELSE IF arg.prefix = "/" /\ acc.config.input = ""
                    THEN [acc EXCEPT !.config.input = ArgText(arg)]
                    ELSE [acc EXCEPT !.ok = FALSE]

\* main.cc parse_arguments
parse_arguments(args) ==
    LET r == FoldL(parse_argument,
                   [config |-> NewConfig, mode |-> "None", allow_options |-> TRUE, ok |-> TRUE],
                   args)
    IN  [config |-> r.config, ok |-> r.ok /\ r.mode = "None"]

\* sapc::compile, line 183: the value it returns
compile(s) == s.ctx.rootModule # nullptr /\ s.log.countErrors = 0

\* main.cc compile(Config&), lines 131-132
afterCompile(s) ==
    IF ~compile(s) /\ s.log.lines = <<>>
    THEN LogError(s, Loc(s.ctx.targetFile, "", 0), "Failed to compile input")
    ELSE s

\* main.cc compile(Config&), line 134: valid, and the log validate leaves
validated(s) ==
    IF compile(s) THEN validate(afterCompile(s), s.ctx.rootModule)
    ELSE Ret(afterCompile(s), FALSE)

\* Lines 139-142 with the two tests in the other order: a fault the claim on
\* the exit codes has to detect.
exitAfterValidateSwapped(compiled, valid) == IF ~valid THEN 4 ELSE IF ~compiled THEN 2 ELSE -1

\* main.cc compile(Config&), lines 139-142: the exit code, or -1 when the
\* driver goes on to write the JSON document
exitAfterValidate(compiled, valid) == IF ~compiled THEN 2 ELSE IF ~valid THEN 4 ELSE -1

\* ------------------------------------------------------------------- lexer
\* A character is a string of length one; NUL is the character after the
\* last one of a std::string.  A text is a sequence of characters.
NUL == "NUL"
Lower ==
    {"a", "b", "c", "d", "e", "f", "g", "h", "i", "j", "k", "l", "m",
     "n", "o", "p", "q", "r", "s", "t", "u", "v", "w", "x", "y", "z"}
Upper ==
    {"A", "B", "C", "D", "E", "F", "G", "H", "I", "J", "K", "L", "M",
     "N", "O", "P", "Q", "R", "S", "T", "U", "V", "W", "X", "Y", "Z"}
Digits == <<"0", "1", "2", "3", "4", "5", "6", "7", "8", "9">>

isIdentStartChar(ch) == ch \in Lower \cup Upper \cup {"_"}
isDigit(ch) == ch \in Range(Digits)
isIdentChar(ch) == isIdentStartChar(ch) \/ isDigit(ch)
isWhiteSpace(ch) == ch \in {" ", "\t", "\r", "\n"}

\* The std::string of a text.
RECURSIVE Text(_)
Text(chars) == IF chars = <<>> THEN "" ELSE Head(chars) \o Text(Tail(chars))

\* lexer.hh Token
Token(type, pos, dataNumber, dataString) ==
    [type |-> type, pos |-> pos, dataNumber |-> dataNumber, dataString |-> dataString]

\* The locals of tokenize: position, line, lineStart, tokens; ret is what
\* tokenize returned ("" while it runs); past is whether source[i] was read
\* with i = source.size().
NewScan ==
    [position |-> 0, line |-> 1, lineStart |-> 0, tokens |-> <<>>, ret |-> "", past |-> FALSE]

\* source[i], for a position i counted from 0; the read at source.size()
\* yields the character beyond.
CharAt(source, i, beyond) == IF i < Len(source) THEN source[i + 1] ELSE beyond

\* tokenize, advance lambda
RECURSIVE advance(_, _, _)
advance(L, source, count) ==
    IF count <= 0 \/ L.position >= Len(source) THEN L
    ELSE advance([L EXCEPT !.position = @ + 1,
                           !.line = IF source[L.position + 1] = "\n" THEN @ + 1 ELSE @,
                           !.lineStart = IF source[L.position + 1] = "\n"
                                         THEN L.position + 1 ELSE @],
                 source, count - 1)

\* tokenize, pos lambda
TokenPos(L, start) == [line |-> L.line, column |-> (start - L.lineStart) + 1]

\* tokenize, match lambda: whether input is next in the source, and the
\* scan after it
match(L, source, input, only, beyond) ==
    IF Len(source) - L.position < Len(input) THEN Ret(L, FALSE)
    ELSE IF SubSeq(source, L.position + 1, L.position + Len(input)) # input THEN Ret(L, FALSE)
    ELSE IF only /\ Len(source) >= L.position + Len(input)
    THEN Let([L EXCEPT !.past = @ \/ L.position + Len(input) = Len(source)],
             LAMBDA R :
                IF isIdentChar(CharAt(source, L.position + Len(input), beyond))
                THEN Ret(R, FALSE)
                ELSE Ret(advance(R, source, Len(input)), TRUE))
    ELSE Ret(advance(L, source, Len(input)), TRUE)

\* tokenize, error lambda
error(L, start) ==
    [L EXCEPT !.tokens = Append(@, Token("Unknown", TokenPos(L, start), 0, "")), !.ret = "false"]

\* tokenize, tokenMap
Punct(text, token) == [text |-> <<text>>, token |-> token, keyword |-> FALSE]
Word(text, token) == [text |-> text, token |-> token, keyword |-> TRUE]
tokenMap ==
    <<Punct("{", "LeftBrace"), Punct("}", "RightBrace"), Punct("(", "LeftParen"),
      Punct(")", "RightParen"), Punct("[", "LeftBracket"), Punct("]", "RightBracket"),
      Punct(",", "Comma"), Punct(".", "Dot"), Punct("=", "Equal"), Punct(":", "Colon"),
      Punct(";", "SemiColon"), Punct("*", "Asterisk"),
      Word(<<"m", "o", "d", "u", "l", "e">>, "KeywordModule"),
      Word(<<"i", "m", "p", "o", "r", "t">>, "KeywordImport"),
      Word(<<"a", "t", "t", "r", "i", "b", "u", "t", "e">>, "KeywordAttribute"),
      Word(<<"t", "y", "p", "e", "n", "a", "m", "e">>, "KeywordTypename"),
      Word(<<"c", "o", "n", "s", "t">>, "KeywordConst"),
      Word(<<"s", "t", "r", "u", "c", "t">>, "KeywordStruct"),
      Word(<<"u", "n", "i", "o", "n">>, "KeywordUnion"),
      Word(<<"e", "n", "u", "m">>, "KeywordEnum"),
      Word(<<"t", "r", "u", "e">>, "KeywordTrue"),
      Word(<<"f", "a", "l", "s", "e">>, "KeywordFalse"),
      Word(<<"n", "u", "l", "l">>, "KeywordNull")>>

\* The first position from the position `from` on where stop holds of the
\* character, or the size of the source: where a loop
\* `while (position < source.size() && !stop(source[position])) advance()`
\* ends.
Until(source, from, stop(_)) ==
    CHOOSE j \in from..Len(source) :
        /\ j = Len(source) \/ stop(source[j + 1])
        /\ \A k \in from..(j - 1) : ~stop(source[k + 1])
AdvanceTo(L, source, to) == advance(L, source, to - L.position)

\* tokenize, lines 137-146: a line comment
lineComment(L, source) ==
    AdvanceTo(L, source, Until(source, L.position, LAMBDA ch : ch = "\n") + 1)

\* tokenize, lines 149-157: a block comment, after its opening
blockComment(L, source) ==
    Let(Until(source, L.position, LAMBDA ch : FALSE),
        LAMBDA size :
            Let({j \in L.position..(size - 2) : SubSeq(source, j + 1, j + 2) = <<"*", "/">>},
                LAMBDA ends :
                    IF ends = {} THEN AdvanceTo(L, source, size)
                    ELSE AdvanceTo(L, source,
                                   (CHOOSE j \in ends : \A k \in ends : j <= k) + 3)))

\* std::from_chars on the digits of a number
RECURSIVE Decimal(_)
Decimal(digits) ==
    IF digits = <<>> THEN 0
    ELSE 10 * Decimal(SubSeq(digits, 1, Len(digits) - 1))
         + (FirstIdx(Digits, LAMBDA d : d = digits[Len(digits)]) - 1)
from_chars(text) ==
    IF text # <<>> /\ Head(text) = "-" THEN 0 - Decimal(Tail(text)) ELSE Decimal(text)

\* tokenize, lines 181-198: a number
number(L, source, start) ==
    Let(AdvanceTo(L, source, Until(source, start + 1, LAMBDA ch : ~isDigit(ch))),
        LAMBDA N :
            IF source[start + 1] = "-" /\ N.position - start <= 1 THEN error(N, start)
            ELSE [N EXCEPT !.tokens =
                    Append(@, Token("Number", TokenPos(N, start),
                                    from_chars(SubSeq(source, start + 1, N.position)), ""))])

\* tokenize, lines 204-232: the characters of a string, after its opening
RECURSIVE stringBody(_, _, _, _)
stringBody(L, source, start, buf) ==
    IF L.position >= Len(source)
    THEN [L EXCEPT !.tokens = Append(@, Token("String", TokenPos(L, start), 0, buf))]
    ELSE Let(advance(L, source, 1),
             LAMBDA A :
                CASE source[L.position + 1] = "\"" ->
                        [A EXCEPT !.tokens = Append(@, Token("String", TokenPos(A, start), 0, buf))]
                  [] source[L.position + 1] = "\\" ->
                        IF A.position >= Len(source) THEN error(A, start)
                        ELSE Let(advance(A, source, 1),
                                 LAMBDA E :
                                    CASE source[A.position + 1] = "n" ->
                                            stringBody(E, source, start, buf \o "\n")
                                      [] source[A.position + 1] = "\\" ->
                                            stringBody(E, source, start, buf \o "\\")
                                      [] OTHER -> error(E, start))
                  [] OTHER -> stringBody(A, source, start, buf \o source[L.position + 1]))

\* tokenize, lines 160-169: the first entry of tokenMap that matches, 0
\* when none does
static(L, source, beyond) ==
    FirstIdx([i \in DOMAIN tokenMap |-> i],
             LAMBDA i : match(L, source, tokenMap[i].text, tokenMap[i].keyword, beyond).v)
\* tokenize, lines 161-167: whether a call of match in the loop over
\* tokenMap reads source[source.size()]
staticPast(L, source, beyond) ==
    \E i \in DOMAIN tokenMap :
        /\ static(L, source, beyond) \in {0} \cup (i..Len(tokenMap))
        /\ match(L, source, tokenMap[i].text, tokenMap[i].keyword, beyond).s.past

\* tokenize, lines 124-240: the loop, from its iteration at scan L on
RECURSIVE scan(_, _, _)
scan(L, source, beyond) ==
    Let(Let(AdvanceTo(L, source, Until(source, L.position, LAMBDA ch : ~isWhiteSpace(ch))),
            LAMBDA W : [W EXCEPT !.past = @ \/ staticPast(W, source, beyond)]),
        LAMBDA S :
            IF S.position = Len(source)
            THEN [S EXCEPT !.tokens = Append(@, Token("EndOfFile", TokenPos(S, S.position), 0, "")),
                           !.ret = "true"]
            ELSE IF source[S.position + 1] = "#" THEN scan(lineComment(S, source), source, beyond)
            ELSE IF match(S, source, <<"/", "/">>, FALSE, beyond).v
            THEN scan(lineComment(match(S, source, <<"/", "/">>, FALSE, beyond).s, source),
                      source, beyond)
            ELSE IF match(S, source, <<"/", "*">>, FALSE, beyond).v
            THEN scan(blockComment(match(S, source, <<"/", "*">>, FALSE, beyond).s, source),
                      source, beyond)
            ELSE IF static(S, source, beyond) # 0
            THEN Let(tokenMap[static(S, source, beyond)],
                     LAMBDA m :
                        Let(match(S, source, m.text, m.keyword, beyond).s,
                            LAMBDA M :
                                scan([M EXCEPT !.tokens =
                                        Append(@, Token(m.token, TokenPos(M, S.position), 0, ""))],
                                     source, beyond)))
            ELSE IF isIdentStartChar(source[S.position + 1])
            THEN Let(AdvanceTo(S, source,
                               Until(source, S.position + 1, LAMBDA ch : ~isIdentChar(ch))),
                     LAMBDA I :
                        scan([I EXCEPT !.tokens =
                                Append(@, Token("Identifier", TokenPos(I, S.position), 0,
                                                Text(SubSeq(source, S.position + 1, I.position))))],
                             source, beyond))
            ELSE IF source[S.position + 1] = "-" \/ isDigit(source[S.position + 1])
            THEN Let(number(advance(S, source, 1), source, S.position),
                     LAMBDA N : IF N.ret = "false" THEN N ELSE scan(N, source, beyond))
            ELSE IF source[S.position + 1] = "\""
            THEN Let(stringBody(advance(S, source, 1), source, S.position, ""),
                     LAMBDA N : IF N.ret = "false" THEN N ELSE scan(N, source, beyond))
            ELSE error(S, S.position))

\* tokenize(source, tokens): the tokens and the value returned
tokenize(source, beyond) ==
    Let(scan(NewScan, source, beyond),
        LAMBDA L : [tokens |-> L.tokens, ok |-> L.ret = "true", past |-> L.past])

\* ----------------------------------------------------------------- grammar
\* grammar.cc, the configurations of parseScope
ConfigModule ==
    {"AllowNamespaces", "AllowTypes", "AllowModule", "AllowAttributes", "AllowImport",
     "AllowConstants", "AllowCustom"}
ConfigNamespaceWide == ConfigModule
ConfigNamespace == {"AllowNamespaces", "AllowTypes", "AllowConstants"}

\* struct Grammar after parseFile pushed the declarations of the module on
\* scopeStack.  An entry of scopeStack is the namespace a call of parseScope
\* fills (the first entry is the module) and the start the call was given;
\* module.name is name; imported is what importCallback yields for each
\* module (no entry: nullptr); ok is FALSE once a call has returned false.
NewGrammar(tokens, imported) ==
    [tokens |-> tokens, imported |-> imported, next |-> 0,
     scopeStack |-> <<[name |-> "", start |-> [line |-> 1, column |-> 0], decls |-> <<>>]>>,
     customTags |-> EmptyMap,
     annotations |-> <<>>, name |-> "", log |-> <<>>, ok |-> TRUE, status |-> "run"]

\* Grammar::match, Grammar::consume(TokenType) of a token that matches
matchType(G, type) == G.ok /\ G.next < Len(G.tokens) /\ G.tokens[G.next + 1].type = type
Skip(G) == [G EXCEPT !.next = @ + 1]
Data(G) == G.tokens[G.next + 1]

\* Grammar::fail
fail(G, message) ==
    IF ~G.ok THEN G
    ELSE [G EXCEPT !.ok = FALSE,
                   !.log = Append(@, [sev |-> "error", msg |-> message,
                                      loc |-> (IF G.next < Len(G.tokens) THEN Data(G)
                                               ELSE Last(G.tokens)).pos])]

\* Grammar::mustConsume(TokenType)
mustConsume(G, type) == IF matchType(G, type) THEN Skip(G) ELSE fail(G, "expected " \o type)

\* Grammar::mustConsume(long long&), Grammar::mustConsume(ast::Identifier&)
mustConsumeNumber(G) ==
    IF matchType(G, "Number") THEN Ret(Skip(G), Data(G).dataNumber)
    ELSE Ret(fail(G, "expected number"), 0)
mustConsumeIdentifier(G) ==
    IF matchType(G, "Identifier") THEN Ret(Skip(G), Data(G).dataString)
    ELSE Ret(fail(G, "expected identifier"), "")

\* Grammar::mustConsume(ast::QualifiedId&)
RECURSIVE mustConsumeQualifiedId(_)
mustConsumeQualifiedId(G) ==
    Let(mustConsumeIdentifier(G),
        LAMBDA a :
            IF ~matchType(a.s, "Dot") THEN Ret(a.s, <<a.v>>)
            ELSE Let(mustConsumeQualifiedId(Skip(a.s)), LAMBDA r : Ret(r.s, <<a.v>> \o r.v)))

\* Grammar::mustConsume(ast::Literal&); literals: the loop of lines 558-562
RECURSIVE mustConsumeLiteral(_)
RECURSIVE literals(_)
mustConsumeLiteral(G) ==
    CASE matchType(G, "KeywordNull") -> Ret(Skip(G), LNull)
      [] matchType(G, "KeywordFalse") -> Ret(Skip(G), LBool(FALSE))
      [] matchType(G, "KeywordTrue") -> Ret(Skip(G), LBool(TRUE))
      [] matchType(G, "String") -> Ret(Skip(G), LStr(Data(G).dataString))
      [] matchType(G, "Number") -> Ret(Skip(G), LInt(Data(G).dataNumber))
      [] matchType(G, "Identifier") ->
            Let(mustConsumeQualifiedId(G), LAMBDA q : Ret(q.s, LId(q.v)))
      [] matchType(G, "LeftBrace") ->
            IF matchType(Skip(G), "RightBrace") THEN Ret(Skip(Skip(G)), LList(<<>>))
            ELSE Let(literals(Skip(G)),
                     LAMBDA r : Ret(mustConsume(r.s, "RightBrace"), LList(r.v)))
      [] OTHER -> Ret(fail(G, "expected literal"), LNull)
literals(G) ==
    Let(mustConsumeLiteral(G),
        LAMBDA a :
            IF ~matchType(a.s, "Comma") THEN Ret(a.s, <<a.v>>)
            ELSE Let(literals(Skip(a.s)), LAMBDA r : Ret(r.s, <<a.v>> \o r.v)))

\* Grammar::mustConsume(std::unique_ptr<ast::TypeRef>&), lines 641-645 and
\* 656-669: the pointer and the array after the name
suffixes(G, type) ==
    Let(IF matchType(G, "Asterisk") THEN Ret(Skip(G), TPointer(type)) ELSE Ret(G, type),
        LAMBDA p :
            IF ~matchType(p.s, "LeftBracket") THEN p
            ELSE IF matchType(Skip(p.s), "Number")
            THEN Ret(mustConsume(Skip(Skip(p.s)), "RightBracket"),
                     TArray(p.v, <<Data(Skip(p.s)).dataNumber>>))
            ELSE Ret(mustConsume(Skip(p.s), "RightBracket"), TArray(p.v, <<>>)))

\* Grammar::mustConsume(std::unique_ptr<ast::TypeRef>&); typeArgs: the loop
\* of lines 648-650
RECURSIVE mustConsumeTypeRef(_)
RECURSIVE typeArgs(_)
mustConsumeTypeRef(G) ==
    IF matchType(G, "KeywordTypename") THEN suffixes(Skip(G), TTypeName)
    ELSE Let(mustConsumeQualifiedId(G),
             LAMBDA q :
                IF ~matchType(q.s, "LeftAngle") THEN suffixes(q.s, TName(q.v))
                ELSE Let(typeArgs(Skip(q.s)),
                         LAMBDA a : suffixes(mustConsume(a.s, "RightAngle"),
                                             TGeneric(TName(q.v), a.v))))
typeArgs(G) ==
    Let(mustConsumeTypeRef(G),
        LAMBDA a :
            IF ~matchType(a.s, "Comma") THEN Ret(a.s, <<a.v>>)
            ELSE Let(typeArgs(Skip(a.s)), LAMBDA r : Ret(r.s, <<a.v>> \o r.v)))

\* Grammar::mustConsume(std::vector<ast::Annotation>&), lines 676-690: the
\* annotations between the brackets
RECURSIVE annotationList(_, _)
annotationList(G, acc) ==
    Let(mustConsumeQualifiedId(G),
        LAMBDA n :
            Let(IF ~matchType(n.s, "LeftParen") THEN Ret(n.s, <<>>)
                ELSE IF matchType(Skip(n.s), "RightParen") THEN Ret(Skip(Skip(n.s)), <<>>)
                ELSE Let(literals(Skip(n.s)),
                         LAMBDA r : Ret(mustConsume(r.s, "RightParen"), r.v)),
                LAMBDA a :
                    IF matchType(a.s, "Comma")
                    THEN annotationList(Skip(a.s), Append(acc, Anno(n.v, a.v)))
                    ELSE Ret(a.s, Append(acc, Anno(n.v, a.v)))))

\* Grammar::mustConsume(std::vector<ast::Annotation>&)
mustConsumeAnnotations(G, annotations) ==
    Let(annotationList(mustConsume(G, "LeftBracket"), annotations),
        LAMBDA r : Ret(mustConsume(r.s, "RightBracket"), r.v))

\* `while (match(TokenType::LeftBracket)) EXPECT(annotations);`
RECURSIVE annotationLists(_, _)
annotationLists(G, acc) ==
    IF ~matchType(G, "LeftBracket") THEN Ret(G, acc)
    ELSE Let(mustConsumeAnnotations(G, acc), LAMBDA r : annotationLists(r.s, r.v))

\* One field of a struct (lines 316-328), one member of a union (lines
\* 350-357: no default), one field of an attribute (lines 159-168: no
\* annotations).
parseField(G, annotated, defaulted) ==
    Let(IF annotated THEN annotationLists(G, <<>>) ELSE Ret(G, <<>>),
        LAMBDA a :
            Let(mustConsumeTypeRef(a.s),
                LAMBDA ty :
                    Let(mustConsumeIdentifier(ty.s),
                        LAMBDA n :
                            IF defaulted /\ matchType(n.s, "Equal")
                            THEN Let(mustConsumeLiteral(Skip(n.s)),
                                     LAMBDA d :
                                        Ret(mustConsume(d.s, "SemiColon"),
                                            Field(ty.v, n.v, a.v, <<d.v>>)))
                            ELSE Ret(mustConsume(n.s, "SemiColon"),
                                     Field(ty.v, n.v, a.v, <<>>)))))

\* `while (!consume(TokenType::RightBrace)) { ... }` over fields
RECURSIVE parseFields(_, _, _, _)
parseFields(G, annotated, defaulted, acc) ==
    IF ~G.ok THEN Ret(G, acc)
    ELSE IF matchType(G, "RightBrace") THEN Ret(Skip(G), acc)
    ELSE Let(parseField(G, annotated, defaulted),
             LAMBDA f : parseFields(f.s, annotated, defaulted, Append(acc, f.v)))

\* The type parameters of a struct or union, lines 304-311
RECURSIVE identifiers(_)
identifiers(G) ==
    Let(mustConsumeIdentifier(G),
        LAMBDA a :
            IF ~matchType(a.s, "Comma") THEN Ret(a.s, <<a.v>>)
            ELSE Let(identifiers(Skip(a.s)), LAMBDA r : Ret(r.s, <<a.v>> \o r.v)))
typeParams(G) ==
    IF ~matchType(G, "LeftAngle") THEN Ret(G, <<>>)
    ELSE Let(identifiers(Skip(G)), LAMBDA r : Ret(mustConsume(r.s, "RightAngle"), r.v))

\* `if (consume(TokenType::Colon)) EXPECT(baseType);`
baseType(G) ==
    IF ~matchType(G, "Colon") THEN Ret(G, <<>>)
    ELSE Let(mustConsumeTypeRef(Skip(G)), LAMBDA b : Ret(b.s, <<b.v>>))

\* Grammar::begin: the declaration joins the scope on top of scopeStack.  A
\* declaration of a parse that fails is never seen: parse returns nullptr.
begin(G, decl) ==
    IF ~G.ok THEN G
    ELSE [G EXCEPT !.scopeStack[Len(G.scopeStack)].decls = Append(@, decl),
                   !.annotations = <<>>]

\* Grammar::parseStruct
parseStruct(G, customTag) ==
    Let(mustConsumeIdentifier(G),
        LAMBDA n :
            Let(typeParams(n.s),
                LAMBDA p :
                    Let(baseType(p.s),
                        LAMBDA b :
                            Let(parseFields(mustConsume(b.s, "LeftBrace"), TRUE, TRUE, <<>>),
                                LAMBDA f :
                                    begin(f.s, Tagged(StructDecl(n.v, p.v, b.v, f.v, G.annotations),
                                                      customTag))))))

\* Grammar::parseUnion
parseUnion(G, customTag) ==
    Let(mustConsumeIdentifier(G),
        LAMBDA n :
            Let(typeParams(n.s),
                LAMBDA p :
                    Let(parseFields(mustConsume(p.s, "LeftBrace"), TRUE, FALSE, <<>>),
                        LAMBDA f :
                            begin(f.s, [Tagged(UnionDecl(n.v, f.v), customTag)
                                            EXCEPT !.generics = p.v,
                                                   !.annotations = G.annotations]))))

\* Grammar::parseAlias
parseAlias(G, customTag) ==
    Let(mustConsumeIdentifier(G),
        LAMBDA n :
            Let(IF ~matchType(n.s, "Equal") THEN Ret(n.s, <<>>)
                ELSE Let(mustConsumeTypeRef(Skip(n.s)), LAMBDA r : Ret(r.s, <<r.v>>)),
                LAMBDA ty :
                    begin(mustConsume(ty.s, "SemiColon"),
                          [Tagged(AliasDecl(n.v, ty.v), customTag)
                                EXCEPT !.annotations = G.annotations])))

\* Grammar::parseEnum, lines 391-401: the items, the value of the next one
\* being nextValue
RECURSIVE enumItemsCounted(_, _, _)
enumItemsCounted(G, nextValue, acc) ==
    Let(mustConsumeIdentifier(G),
        LAMBDA n :
            Let(IF matchType(n.s, "Equal") THEN mustConsumeNumber(Skip(n.s))
                ELSE Ret(n.s, nextValue),
                LAMBDA v :
                    IF matchType(v.s, "Comma")
                    THEN enumItemsCounted(Skip(v.s), nextValue + 1, Append(acc, Item(n.v, v.v)))
                    ELSE Ret(v.s, Append(acc, Item(n.v, v.v)))))
RECURSIVE enumItems(_, _, _)
enumItems(G, nextValue, acc) ==
    Let(mustConsumeIdentifier(G),
        LAMBDA n :
            Let(IF matchType(n.s, "Equal") THEN mustConsumeNumber(Skip(n.s))
                ELSE Ret(n.s, nextValue),
                LAMBDA v :
                    IF matchType(v.s, "Comma")
                    THEN enumItems(Skip(v.s), v.v + 1, Append(acc, Item(n.v, v.v)))
                    ELSE Ret(v.s, Append(acc, Item(n.v, v.v)))))

\* Grammar::parseEnum
parseEnum(G, customTag) ==
    Let(mustConsumeIdentifier(G),
        LAMBDA n :
            Let(baseType(n.s),
                LAMBDA b :
                    Let(enumItems(mustConsume(b.s, "LeftBrace"), 0, <<>>),
                        LAMBDA i :
                            begin(mustConsume(i.s, "RightBrace"),
                                  [Tagged(EnumDecl(n.v, i.v), customTag)
                                        EXCEPT !.baseType = b.v,
                                               !.annotations = G.annotations]))))

\* Grammar::parseConstant
parseConstant(G, customTag) ==
    Let(mustConsumeTypeRef(G),
        LAMBDA ty :
            Let(mustConsumeIdentifier(ty.s),
                LAMBDA n :
                    Let(mustConsumeLiteral(mustConsume(n.s, "Equal")),
                        LAMBDA v :
                            begin(mustConsume(v.s, "SemiColon"),
                                  [Tagged(ConstantDecl(n.v, ty.v, v.v), customTag)
                                        EXCEPT !.annotations = G.annotations]))))

\* Grammar::hasCustomTag, Grammar::processCustomTag
hasCustomTag(G, tag, kind) == tag \in DOMAIN G.customTags /\ G.customTags[tag].tagKind = kind
processCustomTag(G, customDecl) ==
    IF ~G.ok \/ customDecl.name \in DOMAIN G.customTags THEN G
    ELSE [G EXCEPT !.customTags = Put(@, customDecl.name, customDecl)]

\* Grammar::parseCustom
parseCustom(G, tag) ==
    CASE hasCustomTag(G, tag, "Struct") -> parseStruct(G, tag)
      [] hasCustomTag(G, tag, "Enum") -> parseEnum(G, tag)
      [] hasCustomTag(G, tag, "Union") -> parseUnion(G, tag)
      [] hasCustomTag(G, tag, "Alias") -> parseAlias(G, tag)
      [] hasCustomTag(G, tag, "Constant") -> parseConstant(G, tag)
      [] OTHER -> fail(G, "unexpected identifier")

\* Grammar::parseScope, lines 137-151: an import declaration
parseImport(G) ==
    Let(mustConsumeIdentifier(G),
        LAMBDA n :
            Let(begin(mustConsume(n.s, "SemiColon"), ImportDecl(n.v)),
                LAMBDA I :
                    IF ~I.ok \/ n.v \notin DOMAIN I.imported THEN I
                    ELSE FoldL(processCustomTag, I,
                               SelectSeq(I.imported[n.v], LAMBDA d : d.kind = "CustomTag"))))

\* Grammar::parseScope, lines 153-174: an attribute declaration
parseAttribute(G) ==
    Let(mustConsumeIdentifier(G),
        LAMBDA n :
            IF matchType(n.s, "LeftBrace")
            THEN Let(parseFields(Skip(n.s), FALSE, TRUE, <<>>),
                     LAMBDA f : begin(f.s, AttributeDecl(n.v, f.v)))
            ELSE begin(mustConsume(n.s, "SemiColon"), AttributeDecl(n.v, <<>>)))

\* Grammar::parseScope, lines 184-213: a use declaration
tagKinds ==
    [KeywordStruct |-> "Struct", KeywordEnum |-> "Enum", KeywordUnion |-> "Union",
     KeywordUsing |-> "Alias", KeywordConst |-> "Constant"]
parseUse(G) ==
    Let(mustConsumeIdentifier(G),
        LAMBDA n :
            Let(mustConsume(n.s, "Colon"),
                LAMBDA c :
                    IF ~(c.ok /\ c.next < Len(c.tokens) /\ Data(c).type \in DOMAIN tagKinds)
                    THEN fail(c, "expected one of")
                    ELSE Let([CustomTagDecl(n.v, G.annotations)
                                    EXCEPT !.tagKind = tagKinds[Data(c).type]],
                             LAMBDA customTagDecl :
                                processCustomTag(
                                    begin(mustConsume(Skip(c), "SemiColon"), customTagDecl),
                                    customTagDecl))))

\* Grammar::parseScope, lines 216-229: a namespace, up to the call of
\* parseScope for its declarations
openNamespace(G) ==
    Let(mustConsumeIdentifier(G),
        LAMBDA n :
            Let(mustConsume(n.s, "LeftBrace"),
                LAMBDA b :
                    IF ~b.ok THEN b
                    ELSE [b EXCEPT !.scopeStack =
                            Append(@, [name |-> n.v, start |-> G.tokens[n.s.next].pos,
                                       decls |-> <<>>])]))

\* Grammar::parseScope, line 227: parseScope of a namespace has returned
closeNamespace(G) ==
    [G EXCEPT !.scopeStack =
        [Front(@) EXCEPT ![Len(@) - 1].decls =
            Append(@, NamespaceDecl(Last(G.scopeStack).name, Last(G.scopeStack).decls))]]

\* Grammar::parseScope, lines 232-241: a module declaration
parseModule(G) ==
    Let(mustConsumeIdentifier(G),
        LAMBDA n :
            Let(mustConsume(n.s, "SemiColon"),
                LAMBDA m :
                    IF ~m.ok THEN m
                    ELSE [begin(m, ModuleDecl(n.v, G.annotations))
                            EXCEPT !.name = IF G.name = "" THEN n.v ELSE @]))

\* Grammar::parseFile, lines 115-118: parseScope of the module has returned
endOfFile(G) ==
    IF G.name = "" THEN fail(G, "missing module declaration") ELSE [G EXCEPT !.status = "parsed"]

\* Grammar::parseScope, lines 177-291: a declaration after its annotations
declaration(G, allowed) ==
    CASE "AllowCustom" \in allowed /\ matchType(G, "KeywordUse") -> parseUse(Skip(G))
      [] "AllowNamespaces" \in allowed /\ matchType(G, "KeywordNamespace") ->
            openNamespace(Skip(G))
      [] "AllowModule" \in allowed /\ matchType(G, "KeywordModule") -> parseModule(Skip(G))
      [] "AllowConstants" \in allowed /\ matchType(G, "KeywordConst") ->
            parseConstant(Skip(G), "")
      [] "AllowTypes" \in allowed /\ matchType(G, "KeywordUnion") -> parseUnion(Skip(G), "")
      [] "AllowTypes" \in allowed /\ matchType(G, "KeywordUsing") -> parseAlias(Skip(G), "")
      [] "AllowTypes" \in allowed /\ matchType(G, "KeywordStruct") -> parseStruct(Skip(G), "")
      [] "AllowTypes" \in allowed /\ matchType(G, "KeywordEnum") -> parseEnum(Skip(G), "")
      [] matchType(G, "Identifier") -> parseCustom(Skip(G), Data(G).dataString)
      [] OTHER -> fail(G, "unexpected")

\* Grammar::parseScope: one iteration of the loop of the call on top of the
\* stack, with the terminator and the configuration of that call
iteration(G, terminate, allowed) ==
    CASE matchType(G, terminate) ->
            IF terminate = "EndOfFile" THEN endOfFile(Skip(G)) ELSE closeNamespace(Skip(G))
      [] matchType(G, "EndOfFile") ->
            [fail(Skip(G), "unexpected end of file")
                EXCEPT !.log = Append(@, [sev |-> "info", msg |-> "unclosed scope started here",
                                          loc |-> Last(G.scopeStack).start])]
      [] matchType(G, "Unknown") -> fail(Skip(G), "unexpected input")
      [] "AllowImport" \in allowed /\ matchType(G, "KeywordImport") -> parseImport(Skip(G))
      [] "AllowAttributes" \in allowed /\ matchType(G, "KeywordAttribute") ->
            parseAttribute(Skip(G))
      [] OTHER ->
            Let(annotationLists([G EXCEPT !.annotations = <<>>], <<>>),
                LAMBDA a :
                    IF ~a.s.ok THEN a.s
                    ELSE declaration([a.s EXCEPT !.annotations = a.v], allowed))

\* Grammar::parseScope as called by parseFile and by itself: the next
\* iteration; a call that returned false ends the parse.
parseScope(G) ==
    Let(IF Len(G.scopeStack) = 1 THEN iteration(G, "EndOfFile", ConfigModule)
        ELSE iteration(G, "RightBrace", ConfigNamespace),
        LAMBDA R : IF R.ok THEN R ELSE [R EXCEPT !.status = "failed"])

\* ------------------------------------------------------------------ inputs
\* The source files that exist; every other import target is not found.
Files == {"a", "b"}

\* file_util.hh resolveFile, with every source file in one directory: the
\* path of target.sap, or the empty path.
resolveFile(target, base, search) == IF target \in Files THEN target ELSE ""

SeqsUpTo(S, n) == UNION {[1..k -> S] : k \in 0..n}

TInt == TName(<<"int">>)
TRef(name) == TName(<<name>>)
Plain(ty, name) == Field(ty, name, <<>>, <<>>)
Struct(name, fields) == StructDecl(name, <<>>, <<>>, fields, <<>>)
At(args) == Anno(<<"At">>, args)
Annotated(name, annos) == StructDecl(name, <<>>, <<>>, <<>>, annos)

\* struct L<X> { X[] items; } and a field of type L<T>
Box == StructDecl("L", <<"X">>, <<>>, <<Plain(TArray(TRef("X"), <<>>), "items")>>, <<>>)
OfT(name) == Plain(TGeneric(TRef("L"), <<TRef("T")>>), name)

\* struct P<X, Y> { } and a struct with fields of the types P<ab, c> and
\* P<a, bc>
Pairs ==
    <<Struct("ab", <<>>), Struct("c", <<>>), Struct("a", <<>>), Struct("bc", <<>>),
      StructDecl("P", <<"X", "Y">>, <<>>, <<>>, <<>>),
      Struct("Q", <<Plain(TGeneric(TRef("P"), <<TRef("ab"), TRef("c")>>), "f"),
                    Plain(TGeneric(TRef("P"), <<TRef("a"), TRef("bc")>>), "g")>>)>>

\* enum E { A, B = 3, C }, attribute Doc { int w = 1; }, use tag : KEYWORD
\* with the annotation [Doc], and the five declarations a tag introduces
Enum3 == EnumDecl("E", <<Item("A", 0), Item("B", 3), Item("C", 4)>>)
DefaultsTo(name, id) == Struct(name, <<Field(TRef("E"), "e", <<>>, <<LId(id)>>)>>)
Doc == AttributeDecl("Doc", <<Field(TInt, "w", <<>>, <<LInt(1)>>)>>)
Use(tag, kind) == [CustomTagDecl(tag, <<Anno(<<"Doc">>, <<>>)>>) EXCEPT !.tagKind = kind]
Introduced ==
    {[d EXCEPT !.annotations = <<Anno(<<"Doc">>, <<LInt(2)>>)>>] :
        d \in {Struct("G", <<Plain(TInt, "x")>>), UnionDecl("Un", <<Plain(TInt, "m")>>),
               EnumDecl("En", <<Item("i", 0)>>), AliasDecl("Al", <<TInt>>),
               ConstantDecl("k", TInt, LInt(7))}}

\* [Doc(n)] use tag : struct, and the struct X { } declared as tag X { }
UseWith(n) == CustomTagDecl("tag", <<Anno(<<"Doc">>, <<LInt(n)>>)>>)
TagX == Tagged(Struct("X", <<>>), "tag")

\* The declarations the target file of each input language is made of.
Pool(lg) ==
    CASE lg = "imports" ->
            {ImportDecl("a"), ImportDecl("b"), ImportDecl("m"),
             Struct("S", <<Plain(TInt, "x")>>),
             Struct("E", <<Plain(TRef("Missing"), "x")>>)}
      [] lg = "types" ->
            {ImportDecl("b"),
             Struct("T", <<Plain(TArray(TInt, <<>>), "y"), Plain(TPointer(TInt), "p")>>),
             Struct("S", <<Plain(TArray(TInt, <<>>), "x"), Plain(TArray(TInt, <<5>>), "y"),
                           Plain(TArray(TInt, <<3>>), "z")>>),
             StructDecl("L", <<"X">>, <<>>, <<Plain(TArray(TRef("X"), <<>>), "items")>>, <<>>),
             Struct("U", <<Plain(TGeneric(TRef("L"), <<TInt>>), "a"),
                           Plain(TGeneric(TRef("L"), <<TInt>>), "b"),
                           Plain(TPointer(TRef("T")), "t"), Plain(TRef("T"), "u")>>),
             AliasDecl("A", <<TPointer(TInt)>>),
             StructDecl("D", <<>>, <<TRef("T")>>, <<Plain(TPointer(TInt), "p")>>, <<>>)}
      [] lg = "annotations" ->
            {ImportDecl("b"),
             AttributeDecl("At", <<Plain(TInt, "v"), Field(TInt, "w", <<>>, <<LInt(1)>>)>>),
             StructDecl("S", <<>>, <<>>,
                        <<Field(TInt, "x", <<At(<<LInt(1), LInt(2)>>)>>, <<>>)>>,
                        <<At(<<LInt(1)>>)>>),
             Annotated("M", <<At(<<>>)>>),
             Annotated("X", <<At(<<LInt(1), LInt(2), LInt(3)>>)>>),
             Annotated("N", <<Anno(<<"int">>, <<>>)>>),
             ModuleDecl("a", <<At(<<LInt(1)>>)>>),
             EnumDecl("En", <<[Item("i", 0) EXCEPT !.annotations = <<At(<<LInt(1)>>)>>]>>),
             UnionDecl("Un", <<Field(TInt, "m", <<At(<<LInt(1)>>)>>, <<>>)>>),
             CustomTagDecl("tag", <<>>),
             Tagged(Struct("G", <<>>), "tag")}
      [] lg = "driver" ->
            {ImportDecl("b"),
             Struct("S", <<Plain(TInt, "x")>>),
             Struct("D", <<Plain(TInt, "x"), Plain(TInt, "x")>>),
             Struct("E", <<Plain(TRef("Missing"), "x")>>)}
      [] lg = "generics" ->
            {ImportDecl("b"), Struct("T", <<Plain(TInt, "y")>>), Box, Struct("V", <<OfT("v")>>),
             Struct("P", <<Plain(TRef("X"), "p")>>), AliasDecl("A", <<TRef("X")>>)}
      [] lg = "namespaces" ->
            {ImportDecl("b"),
             Struct("T", <<Plain(TInt, "y")>>),
             Struct("R", <<Plain(TRef("T"), "r")>>),
             NamespaceDecl("n", <<Struct("D", <<Plain(TInt, "x"), Plain(TInt, "x")>>)>>),
             NamespaceDecl("n", <<Struct("T", <<Plain(TInt, "z")>>),
                                  Struct("S", <<Plain(TRef("T"), "x")>>)>>)}
      [] lg = "decls" ->
            {ImportDecl("b"), Enum3, DefaultsTo("S", <<"B">>), DefaultsTo("Q", <<"E", "B">>),
             Struct("G", <<Plain(TInt, "x")>>), ConstantDecl("k", TInt, LInt(7))}
      [] lg = "nulls" ->
            {ImportDecl("b"), Struct("U", <<Plain(TRef("E"), "e")>>),
             Struct("V", <<Plain(TRef("W"), "w")>>), Struct("N", <<Plain(TRef("M"), "m")>>)}
      [] lg = "tags" -> {ImportDecl("b"), UseWith(2), TagX}
      [] OTHER -> {}

\* The declarations the file the target file imports is made of.
Library(lg) ==
    CASE lg = "imports" -> Pool(lg)
      [] lg = "types" ->
            {Struct("T", <<Plain(TArray(TInt, <<>>), "y"), Plain(TPointer(TInt), "p")>>),
             StructDecl("L", <<"X">>, <<>>, <<Plain(TArray(TRef("X"), <<>>), "items")>>, <<>>),
             AliasDecl("A", <<TPointer(TInt)>>)}
      [] lg = "annotations" ->
            {AttributeDecl("At", <<Plain(TInt, "v"), Field(TInt, "w", <<>>, <<LInt(1)>>)>>),
             Annotated("M", <<At(<<>>)>>)}
      [] lg = "driver" ->
            {Struct("S", <<Plain(TInt, "x")>>),
             Struct("D", <<Plain(TInt, "x"), Plain(TInt, "x")>>)}
      [] lg = "generics" -> {Struct("T", <<Plain(TInt, "y")>>), Box}
      [] lg = "namespaces" -> {Struct("T", <<Plain(TInt, "y")>>)}
      [] lg = "decls" -> {Enum3, Doc}
      [] lg = "nulls" ->
            {Struct("E", <<Plain(TRef("Missing"), "x")>>),
             UnionDecl("W", <<Plain(TRef("Missing"), "x")>>),
             Annotated("M", <<Anno(<<"Missing">>, <<>>)>>)}
      [] OTHER -> {}

\* The file the command lines name.
Target == "a"

\* Source files of more than MaxDecls declarations.
Programs(lg, file) ==
    CASE lg = "generics" /\ file = Target ->
            {<<Struct("T", <<Plain(TInt, "y")>>), ImportDecl("b"), Struct("V", <<OfT("v")>>)>>,
             Pairs,
             <<Struct("B", <<Plain(TGeneric(TInt, <<TInt>>), "b")>>)>>,
             <<Box, Struct("K", <<Plain(TGeneric(TRef("L"), <<TInt, TInt>>), "k")>>)>>,
             <<StructDecl("P", <<"X", "Y">>, <<>>, <<>>, <<>>),
               Struct("K", <<Plain(TGeneric(TRef("P"), <<TInt>>), "k")>>)>>}
      [] lg = "namespaces" /\ file = Target ->
            {<<Struct("R", <<Plain(TRef("T"), "r")>>), Struct("T", <<Plain(TInt, "y")>>),
               Struct("U", <<Plain(TRef("T"), "u")>>)>>}
      [] lg = "generics" /\ file # Target ->
            {<<Struct("T", <<Plain(TInt, "y")>>), Box, Struct("W", <<OfT("w")>>)>>}
      [] lg = "decls" /\ file = Target ->
            {<<Doc, Use("tag", d.kind), Tagged(d, "tag")>> : d \in Introduced}
      [] lg = "tags" /\ file # Target ->
            {<<Doc, UseWith(5)>>, <<Doc, UseWith(5), Tagged(Struct("Y", <<>>), "tag")>>}
      [] OTHER -> {}

\* Grammar::parseScope, lines 144-148: the declarations of a file as the
\* grammar registers tags from them, an import standing for the use
\* declarations of the file it names.  In the tags language that file always
\* holds [Doc(5)] use tag : struct.
Harvest(lg, ds) ==
    IF lg # "tags" THEN ds
    ELSE Concat([i \in DOMAIN ds |-> IF ds[i].kind = "Import" THEN <<UseWith(5)>> ELSE <<ds[i]>>])

\* grammar.cc parseCustom: a declaration with a custom tag parses only after
\* a declaration of the tag, as the kind the first of them gives the tag.
Parses(ds) ==
    \A i \in DOMAIN ds :
        ds[i].customTag # "" =>
            \E j \in 1..(i - 1) :
                /\ ds[j].kind = "CustomTag" /\ ds[j].name = ds[i].customTag
                /\ ds[j].tagKind = ds[i].kind
                /\ \A k \in 1..(j - 1) : ~(ds[k].kind = "CustomTag" /\ ds[k].name = ds[j].name)

\* The names a file's module declaration may give the module.
ModuleNames(lg, file) == IF lg = "driver" /\ file = Target THEN {file, "z"} ELSE {file}

\* What parse yields for a file: nullptr (ok = FALSE) for a file with a
\* lexical or syntax error, else its ast::ModuleUnit, whose first declaration
\* is the module declaration.
NoUnit(file) == [ok |-> FALSE, name |-> file, decls |-> <<>>]
Units(lg, file) ==
    (IF lg = "tags" /\ file # Target THEN {} ELSE {NoUnit(file)})
    \cup {[ok |-> TRUE, name |-> n, decls |-> <<ModuleDecl(n, <<>>)>> \o ds] :
            n \in ModuleNames(lg, file),
            ds \in {x \in (IF lg = "tags" /\ file # Target THEN {}
                           ELSE SeqsUpTo(IF file = Target THEN Pool(lg) ELSE Library(lg),
                                         MaxDecls))
                                \cup Programs(lg, file) :
                        Parses(Harvest(lg, x))}}

\* The command lines of each input language.
Input == Arg("", "", Target)
Opt(name) == Arg("-", name, "")
Argvs(lg) ==
    IF lg # "driver" THEN {<<Input>>}
    ELSE {<<>>, <<Input>>, <<Input, Input>>, <<Opt("h")>>, <<Arg("--", "help", ""), Input>>,
          <<Opt("o")>>, <<Opt("o"), Arg("", "", "out"), Input>>,
          <<Opt("o"), Arg("", "", "out"), Opt("d"), Arg("", "", "dep"), Input>>,
          <<Opt("d"), Arg("", "", "dep"), Input>>,
          <<Arg("--", "", ""), Arg("-", "", Target)>>, <<Opt("x"), Input>>,
          <<Arg("/", "", Target)>>, <<Arg("-", "I", "dir"), Input>>,
          <<Opt("I"), Arg("", "", "dir"), Input>>, <<Opt("i"), Input>>,
          <<Arg("", "", "m")>>}

\* -------------------------------------------------------------------- steps
NewContext ==
    [targetFile |-> "", searchPaths |-> <<>>, dependencies |-> <<>>, modules |-> <<>>,
     types |-> <<>>, constants |-> <<>>, namespaces |-> <<>>, rootModule |-> nullptr]
NewCompiler ==
    [state |-> <<>>, typeIdType |-> nullptr, customTagAttr |-> nullptr, coreModule |-> nullptr,
     arrayTypeMap |-> EmptyMap, pointerTypeMap |-> EmptyMap, specializedTypeMap |-> EmptyMap,
     moduleMap |-> EmptyMap, customTagMap |-> EmptyMap]
NewLog == [lines |-> <<>>, countErrors |-> 0]
\* compiled, validated, valid: what compile returned, whether validate was
\* called and what it returned; json: the module serialized; written, deps:
\* the output written and the dependency file's entries; openFailed: the
\* streams that did not open.
NewResult ==
    [compiled |-> FALSE, valid |-> FALSE, validated |-> FALSE, json |-> nullptr,
     written |-> "", deps |-> <<>>, openFailed |-> {}, exitCode |-> -1]
\* The front end before parse is called: the text and what tokenize made of
\* it; the tokens and what Grammar made of them.
NoLexer ==
    [source |-> <<>>, beyond |-> NUL, called |-> FALSE, tokens |-> <<>>, ok |-> FALSE,
     past |-> FALSE]
NoGrammar == [NewGrammar(<<>>, EmptyMap) EXCEPT !.status = "none"]

InitOf(lg) ==
    /\ lang = lg
    /\ argv \in Argvs(lg)
    /\ disk = EmptyMap
    /\ config = NewConfig
    /\ pc = "main"
    /\ ctx = NewContext
    /\ compiler = NewCompiler
    /\ log = NewLog
    /\ fault = "none"
    /\ result = NewResult
    /\ lexer = NoLexer
    /\ grammar = NoGrammar

\* The state s becomes the next state of the compiler.
Becomes(s) ==
    /\ ctx' = s.ctx
    /\ compiler' = s.comp
    /\ log' = s.log
    /\ fault' = s.fault

Exit(code) == pc' = "exited" /\ result' = [result EXCEPT !.exitCode = code]

\* main.cc main, and compile(Config&) up to the construction of the Context
Main ==
    /\ pc = "main"
    /\ \E p \in {parse_arguments(argv)} :
           /\ config' = p.config
           /\ IF ~p.ok THEN Exit(1) /\ UNCHANGED ctx
              ELSE IF p.config.mode = "Help" THEN Exit(0) /\ UNCHANGED ctx
              ELSE IF p.config.input = "" THEN Exit(1) /\ UNCHANGED ctx
              ELSE /\ pc' = "compile"
                   /\ ctx' = [ctx EXCEPT !.targetFile = p.config.input,
                                         !.searchPaths = p.config.search]
                   /\ UNCHANGED result
    /\ UNCHANGED <<lexer, grammar, lang, argv, disk, compiler, log, fault>>

\* grammar.cc parse: what the file holds is fixed the first time it is read.
Parsed(file) ==
    IF file \notin Files THEN {NoUnit(file)}
    ELSE IF file \in DOMAIN disk THEN {disk[file]}
    ELSE Units(lang, file)

NewFrame(file, mod, ns) ==
    [unit |-> file, mod |-> mod, nsStack |-> <<ns>>, importedTypes |-> {},
     resolveCache |-> EmptyMap, pc |-> 1]

\* Compiler::compile, lines 455-473: everything before the loop over the
\* declarations.  The value is FALSE when compile returns nullptr.
EnterCompile(s, filename, unit) ==
    LET s1 == [s EXCEPT !.ctx.dependencies = Append(@, filename)]
        s2 == createCoreModule(s1)
        mod == Len(s2.ctx.modules) + 1
        ns == Len(s2.ctx.namespaces) + 1
    IN  IF ~unit.ok THEN Ret(LogError(s1, Loc(filename, "", 0), "failed to parse"), FALSE)
        ELSE Ret([s2 EXCEPT !.ctx.modules = Append(@, NewModule(unit.name, filename, ns)),
                            !.ctx.namespaces = Append(@, NewNamespace("", "", mod, nullptr)),
                            !.comp.state = Append(@, NewFrame(filename, mod, ns))],
                 TRUE)

\* sapc::compile calls Compiler::compile for the target file
CompileRoot ==
    /\ pc = "compile"
    /\ \E unit \in Parsed(ctx.targetFile) :
        \E r \in {EnterCompile(Cur, ctx.targetFile, unit)} :
            /\ Becomes(r.s)
            /\ pc' = IF r.v THEN "build" ELSE "compiled"
            /\ disk' = IF ctx.targetFile \in Files THEN Put(disk, ctx.targetFile, unit) ELSE disk
    /\ UNCHANGED <<lexer, grammar, lang, argv, config, result>>

Building == pc = "build" /\ compiler.state # <<>>
Decls == disk[Top(Cur).unit].decls
AtDecl == Building /\ Top(Cur).pc <= Len(Decls)
Advance(s) == [s EXCEPT !.comp.state[Len(s.comp.state)].pc = @ + 1]

\* Compiler::compile, lines 475-476: build of the next declaration.  A read
\* through a null reference either ends the process or goes unnoticed.
Build ==
    /\ AtDecl
    /\ Decls[Top(Cur).pc].kind # "Import"
    /\ \E s \in {Advance(build([Cur EXCEPT !.ub = ub], Decls[Top(Cur).pc])) :
                    ub \in {"trap", "skip"}} :
           /\ Becomes(s)
           /\ pc' = IF s.fault # "none" THEN "crashed" ELSE pc
    /\ UNCHANGED <<lexer, grammar, lang, argv, disk, config, result>>

\* Compiler::build(ast::ImportDecl const&), up to the call of compile
BuildImport ==
    /\ AtDecl
    /\ Decls[Top(Cur).pc].kind = "Import"
    /\ LET impDecl == Decls[Top(Cur).pc]
           filename == resolveFile(impDecl.name, Top(Cur).unit, ctx.searchPaths)
       IN  IF filename = ""
           THEN /\ Becomes(Advance(LogError(Cur, Loc(Top(Cur).unit, impDecl.name, 0),
                                            "module not found")))
                /\ UNCHANGED <<pc, disk>>
           ELSE IF filename \in DOMAIN compiler.moduleMap
           THEN Becomes(Advance(Cur)) /\ UNCHANGED <<pc, disk>>
           ELSE IF Len(compiler.state) >= MaxDepth
           THEN /\ Becomes([Cur EXCEPT !.fault = "stackoverflow"])
                /\ pc' = "crashed"
                /\ UNCHANGED disk
           ELSE \E unit \in Parsed(filename) :
                    \E r \in {EnterCompile(Cur, filename, unit)} :
                        /\ Becomes(IF r.v THEN r.s ELSE Advance(r.s))
                        /\ disk' = Put(disk, filename, unit)
                        /\ UNCHANGED pc
    /\ UNCHANGED <<lexer, grammar, lang, argv, config, result>>

\* Compiler::compile, lines 478-480, and the statement of the caller that
\* receives the module: line 451 of build(ast::ImportDecl const&), or line
\* 182 of sapc::compile.
CompileReturn ==
    /\ Building
    /\ Top(Cur).pc > Len(Decls)
    /\ LET mod == TopMod(Cur)
           popped == [Cur EXCEPT !.comp.state = Front(@)]
       IN  IF popped.comp.state # <<>>
           THEN /\ Becomes(Advance([popped EXCEPT
                                       !.ctx.modules[TopMod(popped)].imports = Append(@, mod)]))
                /\ UNCHANGED pc
           ELSE /\ Becomes([popped EXCEPT !.ctx.rootModule = mod])
                /\ pc' = "compiled"
    /\ UNCHANGED <<lexer, grammar, lang, argv, disk, config, result>>

\* main.cc compile(Config&), lines 130-142
Validate ==
    /\ pc = "compiled"
    /\ \E v \in {validated(Cur)} :
           /\ Becomes(v.s)
           /\ pc' = IF exitAfterValidate(compile(Cur), v.v) = -1 THEN "write" ELSE "exited"
           /\ result' = [result EXCEPT
                            !.compiled = compile(Cur), !.validated = compile(Cur), !.valid = v.v,
                            !.exitCode = exitAfterValidate(compile(Cur), v.v)]
    /\ UNCHANGED <<lexer, grammar, lang, argv, disk, config>>

\* main.cc compile(Config&), lines 144-181: the JSON document and the
\* dependency file.  Whether a file can be opened for writing is up to the
\* file system.
Write ==
    /\ pc = "write"
    /\ \E outputOpens, depsOpens \in BOOLEAN :
        LET wantsDeps == config.deps # "" /\ config.output # ""
            json == [result EXCEPT !.json = ctx.rootModule]
        IN  /\ (config.output = "" => outputOpens)
            /\ (~wantsDeps \/ ~outputOpens => depsOpens)
            /\ result' =
                IF ~outputOpens THEN [json EXCEPT !.openFailed = {"output"}, !.exitCode = 3]
                ELSE IF ~depsOpens
                THEN [json EXCEPT !.written = config.output, !.openFailed = {"deps"},
                                  !.exitCode = 3]
                ELSE [json EXCEPT
                        !.written = IF config.output = "" THEN "stdout" ELSE config.output,
                        !.deps = IF wantsDeps THEN ctx.dependencies ELSE <<>>,
                        !.exitCode = 0]
    /\ pc' = "exited"
    /\ UNCHANGED <<lexer, grammar, lang, argv, disk, config, ctx, compiler, log, fault>>

Next == Main \/ CompileRoot \/ Build \/ BuildImport \/ CompileReturn \/ Validate \/ Write

\* Source files that import one another and log errors.
SpecImports == InitOf("imports") /\ [][Next]_vars
\* Source files with pointer, array and generic type references.
SpecTypes == InitOf("types") /\ [][Next]_vars
\* Source files with attributes and annotations.
SpecAnnotations == InitOf("annotations") /\ [][Next]_vars
\* Command lines, and source files with duplicate fields.
SpecDriver == InitOf("driver") /\ [][Next]_vars

\* Source files with specializations of generic types.
SpecGenerics == InitOf("generics") /\ [][Next]_vars

\* Source files with namespaces and names used before their declaration.
SpecNamespaces == InitOf("namespaces") /\ [][Next]_vars
\* Source files of enumerations, constants and custom tags.
SpecDecls == InitOf("decls") /\ [][Next]_vars
\* Types of an imported module with a field type, a member type or an
\* annotation attribute that does not resolve, and their uses.
SpecNulls == InitOf("nulls") /\ [][Next]_vars
SpecTags == InitOf("tags") /\ [][Next]_vars

\* ---------------------------------------------------------------- front end
\* The texts tokenize is given: every text of at most MaxLen characters of
\* the alphabet.
Alphabet == {"a", "1", "-", "\"", "\\", "n", " ", "@", ";"}
\* Texts of at most MaxWords words: reserved words next to identifier
\* characters and separators, and comment marks next to what they hide.
Words ==
    {<<"n", "u", "l", "l">>, <<"e", "n", "u", "m">>, <<"s">>, <<"1">>, <<" ">>, <<";">>}
Marks ==
    {<<"/", "*">>, <<"*", "/">>, <<"/", "/">>, <<"#">>, <<"\n">>, <<"a">>, <<" ">>, <<";">>}
Sources ==
    SeqsUpTo(Alphabet, MaxLen)
        \cup {Concat(ws) : ws \in SeqsUpTo(Words, MaxWords)}
        \cup {Concat(ws) : ws \in SeqsUpTo(Marks, MaxWords)}
\* What data()[size()] of the text holds.
Beyond == {NUL}

Idle ==
    /\ argv = <<>>
    /\ disk = EmptyMap
    /\ config = NewConfig
    /\ pc = "parse"
    /\ ctx = NewContext
    /\ compiler = NewCompiler
    /\ log = NewLog
    /\ fault = "none"
    /\ result = NewResult

InitLexer ==
    /\ lang = "text"
    /\ lexer \in {[NoLexer EXCEPT !.source = text, !.beyond = b] : text \in Sources, b \in Beyond}
    /\ grammar = NoGrammar
    /\ Idle

\* grammar.cc parse, lines 95-97: the call of tokenize
Tokenize ==
    /\ lang = "text"
    /\ ~lexer.called
    /\ \E r \in {tokenize(lexer.source, lexer.beyond)} :
           lexer' = [lexer EXCEPT !.called = TRUE, !.tokens = r.tokens, !.ok = r.ok,
                                  !.past = r.past]
    /\ UNCHANGED <<grammar, lang, argv, disk, config, pc, ctx, compiler, log, fault, result>>

\* The lexer on every text.
SpecLexer == InitLexer /\ [][Tokenize]_vars

\* The token streams Grammar is given: at most MaxStmts of the phrases below,
\* then the end of the file; a token is at the column of its index.
Kw(type) == Token(type, [line |-> 1, column |-> 0], 0, "")
Id(name) == Token("Identifier", [line |-> 1, column |-> 0], 0, name)
UseAs(tag, keyword) ==
    <<Kw("KeywordUse"), Id(tag), Kw("Colon"), Kw(keyword), Kw("SemiColon")>>
Braces(tag) == <<Id(tag), Id("X"), Kw("LeftBrace"), Kw("RightBrace")>>
Phrases ==
    {<<Kw("KeywordModule"), Id("a"), Kw("SemiColon")>>,
     <<Kw("KeywordImport"), Id("b"), Kw("SemiColon")>>,
     UseAs("t", "KeywordStruct"), UseAs("t", "KeywordUnion"), UseAs("t", "KeywordEnum"),
     Braces("t"), Braces("u"),
     <<Id("t"), Id("Y"), Kw("LeftBrace"), Id("A"), Kw("RightBrace")>>,
     <<Kw("KeywordNamespace"), Id("n"), Kw("LeftBrace")>>,
     <<Kw("RightBrace")>>}
Positioned(tokens) ==
    [i \in DOMAIN tokens |-> [tokens[i] EXCEPT !.pos = [line |-> 1, column |-> i]]]
TokenStreams ==
    {Positioned(Concat(phrases) \o <<Kw("EndOfFile")>>) : phrases \in SeqsUpTo(Phrases, MaxStmts)}
\* What the import callback yields: nullptr for every module, or for module
\* b the unit of `module b; use u : struct; use t : enum;`.
Importable ==
    {EmptyMap,
     "b" :> <<ModuleDecl("b", <<>>),
              [CustomTagDecl("u", <<>>) EXCEPT !.tagKind = "Struct"],
              [CustomTagDecl("t", <<>>) EXCEPT !.tagKind = "Enum"]>>}

InitGrammar ==
    /\ lang = "tokens"
    /\ lexer = NoLexer
    /\ grammar \in {NewGrammar(tokens, imported) : tokens \in TokenStreams, imported \in Importable}
    /\ Idle

\* Grammar::parseFile: one iteration of the loop of parseScope
ParseScope ==
    /\ lang = "tokens"
    /\ grammar.status = "run"
    /\ grammar' = parseScope(grammar)
    /\ UNCHANGED <<lexer, lang, argv, disk, config, pc, ctx, compiler, log, fault, result>>

\* The grammar on every token stream.
SpecGrammar == InitGrammar /\ [][ParseScope]_vars

\* Token streams of declarations in scopes: at most MaxStmts of one phrase
\* for each kind of declaration, the opening of a namespace and a closing
\* brace, then the end of the file.
ScopePhrases ==
    {<<Kw("KeywordModule"), Id("a"), Kw("SemiColon")>>,
     <<Kw("KeywordImport"), Id("b"), Kw("SemiColon")>>,
     <<Kw("KeywordAttribute"), Id("At"), Kw("SemiColon")>>,
     UseAs("t", "KeywordStruct"),
     <<Kw("KeywordNamespace"), Id("n"), Kw("LeftBrace")>>,
     <<Kw("RightBrace")>>,
     <<Kw("KeywordConst"), Id("int"), Id("k"), Kw("Equal"),
       Token("Number", [line |-> 1, column |-> 0], 1, ""), Kw("SemiColon")>>,
     <<Kw("KeywordStruct"), Id("S"), Kw("LeftBrace"), Kw("RightBrace")>>,
     <<Kw("KeywordUnion"), Id("U"), Kw("LeftBrace"), Kw("RightBrace")>>,
     <<Kw("KeywordUsing"), Id("A"), Kw("Equal"), Id("int"), Kw("SemiColon")>>,
     <<Kw("KeywordEnum"), Id("E"), Kw("LeftBrace"), Id("A"), Kw("RightBrace")>>,
     Braces("t")}
ScopeStreams ==
    {Positioned(Concat(phrases) \o <<Kw("EndOfFile")>>) :
        phrases \in SeqsUpTo(ScopePhrases, MaxStmts)}

InitScopes ==
    /\ lang = "tokens"
    /\ lexer = NoLexer
    /\ grammar \in {NewGrammar(tokens, imported) : tokens \in ScopeStreams, imported \in Importable}
    /\ Idle

\* The grammar on declarations in scopes.
SpecScopes == InitScopes /\ [][ParseScope]_vars

\* Token streams of `module a; enum E { ... }`: at most MaxItems items, each
\* written with or without a value.
ItemNames == <<"A", "B", "C", "D", "E", "F">>
ItemValues == {0, 3, -2}
NoValue == [given |-> FALSE, n |-> 0]
Valued(n) == [given |-> TRUE, n |-> n]
ItemTokens(name, value, last) ==
    <<Id(name)>>
        \o (IF ~value.given THEN <<>>
            ELSE <<Kw("Equal"), Token("Number", [line |-> 1, column |-> 0], value.n, "")>>)
        \o (IF last THEN <<>> ELSE <<Kw("Comma")>>)
EnumTokens(values) ==
    <<Kw("KeywordModule"), Id("a"), Kw("SemiColon"), Kw("KeywordEnum"), Id("E"), Kw("LeftBrace")>>
        \o Concat([i \in DOMAIN values |-> ItemTokens(ItemNames[i], values[i], i = Len(values))])
        \o <<Kw("RightBrace"), Kw("EndOfFile")>>
EnumStreams ==
    {Positioned(EnumTokens(values)) :
        values \in SeqsUpTo({Valued(n) : n \in ItemValues} \cup {NoValue}, MaxItems) \ {<<>>}}

InitEnums ==
    /\ lang = "tokens"
    /\ lexer = NoLexer
    /\ grammar \in {NewGrammar(tokens, EmptyMap) : tokens \in EnumStreams}
    /\ Idle

\* Compiler::compile, line 457: parse has returned the unit of the target
\* file, or nullptr.
ParseReturn ==
    /\ lang = "tokens"
    /\ pc = "parse"
    /\ grammar.status \in {"parsed", "failed"}
    /\ disk' = Put(disk, Target,
                   IF grammar.status = "failed" THEN NoUnit(Target)
                   ELSE [ok |-> TRUE, name |-> grammar.name,
                         decls |-> grammar.scopeStack[1].decls])
    /\ ctx' = [ctx EXCEPT !.targetFile = Target]
    /\ pc' = "compile"
    /\ UNCHANGED <<lexer, grammar, lang, argv, config, compiler, log, fault, result>>

\* From the tokens of an enum declaration to the schema of its module.
NextEnums ==
    ParseScope \/ ParseReturn \/ CompileRoot \/ Build \/ CompileReturn \/ Validate \/ Write
SpecEnums == InitEnums /\ [][NextEnums]_vars

Init ==
    \E lg \in {"imports", "types", "annotations", "driver", "generics", "namespaces", "decls",
                "nulls", "tags"} :
        InitOf(lg)
Spec == Init /\ [][Next]_vars

\* ------------------------------------------------------------------ claims
\* What the claims speak of.
RootParsed == ctx.targetFile \in DOMAIN disk /\ disk[ctx.targetFile].ok
RootDecls == disk[ctx.targetFile].decls
ErrorLines == {i \in DOMAIN log.lines : log.lines[i].sev = "error"}
\* the process returned from main with a successful compile
Succeeded == pc = "exited" /\ fault = "none" /\ result.compiled
\* the file each frame of Compiler::state is compiling
InProgress == [i \in DOMAIN compiler.state |-> compiler.state[i].unit]
UserModules == DOMAIN ctx.modules \ {compiler.coreModule}
\* the component types of a type: what makeAvailableRecurse goes on to
Components(t) == {v.t : v \in Range(TypeVisits(ctx.types[t]))} \ {nullptr}
Annotations(x) == Range(x.annotations)
\* every annotation of the schema: of modules, types, fields, members, items
AllAnnotations ==
    UNION {Annotations(ctx.modules[m]) : m \in DOMAIN ctx.modules}
    \cup UNION {Annotations(ctx.types[t]) : t \in DOMAIN ctx.types}
    \cup UNION {Annotations(f) : f \in UNION {Range(ctx.types[t].fields) : t \in DOMAIN ctx.types}}
    \cup UNION {Annotations(m) : m \in UNION {Range(ctx.types[t].members) : t \in DOMAIN ctx.types}}
    \cup UNION {Annotations(i) : i \in UNION {Range(ctx.types[t].items) : t \in DOMAIN ctx.types}}
\* the struct declarations of the source files a schema type was built from
DeclsOf(t) ==
    {d \in Range(disk[ctx.types[t].location.file].decls) :
        /\ d.kind = "Struct"
        /\ d.name = ctx.types[t].name
        /\ Len(d.fields) = Len(ctx.types[t].fields)}
StructTypes == {t \in DOMAIN ctx.types : ctx.types[t].kind = "Struct"}
\* two fields of an aggregate have the same name
HasDuplicateField(t) ==
    /\ ctx.types[t].kind \in {"Struct", "Attribute"}
    /\ \E i, j \in DOMAIN ctx.types[t].fields :
            i < j /\ ctx.types[t].fields[i].name = ctx.types[t].fields[j].name
RootTypes == Range(ctx.namespaces[ctx.modules[ctx.rootModule].root].types)

\* C1: compiling a root module whose imports form a cycle terminates; a
\* repeat visit to a file whose compilation is in progress short-circuits
\* instead of compiling that file again.  So no file is ever in progress
\* twice on the stack of compile calls.
C1_InProgressOnce == NoDup(InProgress)

\* C2: each distinct resolved file path is parsed and compiled at most once,
\* and ctx.dependencies holds each compiled path exactly once: when the
\* driver has returned, no path is listed twice.
C2_CompiledOnce == (pc = "exited" /\ fault = "none") => NoDup(ctx.dependencies)

\* C3: two type references that denote pointer-to the same pointee,
\* array-of the same element or the same generic with the same ordered type
\* arguments yield the identical Type object, the second request allocating
\* no new type: no two Type objects are the same pointer, array or
\* specialization, and each is the one its cache holds.
SameDerived(x, y) ==
    /\ x.kind = y.kind
    /\ \/ x.kind = "Pointer" /\ x.to = y.to
       \/ x.kind = "Array" /\ x.of = y.of
       \/ x.kind = "Specialized" /\ x.ref = y.ref /\ x.typeParams = y.typeParams
C3_Interned ==
    /\ \A t, u \in DOMAIN ctx.types :
            SameDerived(ctx.types[t], ctx.types[u]) => t = u
    /\ \A t \in DOMAIN ctx.types :
            /\ ctx.types[t].kind = "Pointer" => compiler.pointerTypeMap[ctx.types[t].to] = t
            /\ ctx.types[t].kind = "Array" => compiler.arrayTypeMap[ctx.types[t].of] = t
\* a derived type named by the fields of types of two different modules
C3_Witness ==
    \E x, y \in DOMAIN ctx.types :
        /\ ctx.types[x].owner # ctx.types[y].owner
        /\ \E i \in DOMAIN ctx.types[x].fields, j \in DOMAIN ctx.types[y].fields :
            /\ ctx.types[x].fields[i].type = ctx.types[y].fields[j].type
            /\ ctx.types[x].fields[i].type # nullptr
            /\ ctx.types[ctx.types[x].fields[i].type].kind \in {"Pointer", "Array", "Specialized"}

\* C4: after a module is compiled without errors, its type list contains
\* every type referenced from its declarations together with each of that
\* type's component types, including a pointer, array or specialized type
\* owned by another module that the interning cache hands back.
C4_TypeListClosed ==
    Succeeded =>
        \A m \in UserModules :
            \A t \in Range(ctx.modules[m].types) : Components(t) \subseteq Range(ctx.modules[m].types)

\* C5: in a compilation that succeeds, every annotation of a module, type,
\* field, union member or enum item has a type of kind Attribute and as many
\* arguments as that attribute has fields.
C5_AnnotationsBound ==
    Succeeded =>
        \A anno \in AllAnnotations :
            /\ anno.type # nullptr
            /\ ctx.types[anno.type].kind = "Attribute"
            /\ Len(anno.args) = Len(ctx.types[anno.type].fields)
\* a successful compilation with an annotation that took an argument from
\* the default value of a field, and one with the custom tag's annotation
C5_Witness ==
    /\ Succeeded
    /\ \E anno \in AllAnnotations :
            /\ anno.type # compiler.customTagAttr
            /\ Len(anno.args) = 2
            /\ anno.args[2] = VInt(1)

\* C6: whenever an aggregate type of the root module has two fields with the
\* same name, validate returns failure and the driver exits with code 4
\* without writing JSON.
C6_DuplicateFieldFails ==
    (pc = "exited" /\ result.compiled /\ \E t \in RootTypes : HasDuplicateField(t)) =>
        /\ ~result.valid
        /\ result.exitCode = 4
        /\ result.written = ""

\* C7: the exit code is 1 for an invalid command line or a missing input
\* file, 2 when compilation failed, 4 when compilation succeeded and
\* validation failed, 3 when the output or the dependency file cannot be
\* opened, 0 otherwise; validation runs only after a successful compile, and
\* JSON is serialized and written only after compile and validate succeeded.
BadCommandLine ==
    \/ ~parse_arguments(argv).ok
    \/ parse_arguments(argv).config.mode = "Compile" /\ parse_arguments(argv).config.input = ""
Help == ~BadCommandLine /\ parse_arguments(argv).config.mode = "Help"
C7_ExitCodes ==
    /\ result.validated => result.compiled
    /\ result.json # nullptr => result.compiled /\ result.valid
    /\ result.written # "" => result.json # nullptr
    /\ pc = "exited" =>
        /\ result.exitCode \in {0, 1, 2, 3, 4}
        /\ result.exitCode = 1 <=> BadCommandLine
        /\ result.exitCode = 2 <=> ~BadCommandLine /\ ~Help /\ ~result.compiled
        /\ result.exitCode = 4 <=> result.compiled /\ ~result.valid
        /\ result.exitCode = 3 <=> result.compiled /\ result.valid /\ result.openFailed # {}
        /\ result.exitCode = 0 <=> Help \/ (result.compiled /\ result.valid /\ result.openFailed = {})
\* the output was written and the dependency file did not open
C7_Witness ==
    pc = "exited" /\ result.exitCode = 3 /\ result.written # "" /\ result.openFailed = {"deps"}

\* C8: compile reports success if and only if the root file parsed and no
\* error was logged during the whole compilation; an import whose file
\* cannot be found logs one error and the remaining declarations of the
\* importing file are still built.
MissingImports(decls) == {i \in DOMAIN decls : decls[i].kind = "Import" /\ decls[i].name \notin Files}
NotFoundLines(file) ==
    {i \in ErrorLines : log.lines[i].msg = "module not found" /\ log.lines[i].loc.file = file}
Built(decls, mod) ==
    \A i \in DOMAIN decls :
        decls[i].kind = "Struct" =>
            \E t \in Range(ctx.modules[mod].types) :
                ctx.types[t].name = decls[i].name /\ ctx.types[t].owner = mod
C8_CompileSucceeds ==
    pc = "compiled" =>
        /\ compile(Cur) <=> (RootParsed /\ ErrorLines = {})
        /\ RootParsed =>
            /\ Cardinality(NotFoundLines(ctx.targetFile)) = Cardinality(MissingImports(RootDecls))
            /\ Built(RootDecls, ctx.rootModule)
\* compile has returned for a root file that imports a file that is not
\* found and declares a struct after the import
C8_Witness ==
    /\ pc = "compiled"
    /\ RootParsed
    /\ \E i, j \in DOMAIN RootDecls :
            i < j /\ i \in MissingImports(RootDecls) /\ RootDecls[j].kind = "Struct"

\* C9: no type object appears more than once in any module's type list,
\* after any sequence of declarations, type references and imports.
C9_TypeListsDistinct == \A m \in DOMAIN ctx.modules : NoDup(ctx.modules[m].types)
\* a module lists a type of another module's that two fields of one of its
\* structs refer to, one as the pointee and one by name
C9_Witness ==
    \E x \in StructTypes :
        \E i, j \in DOMAIN ctx.types[x].fields :
            /\ ctx.types[x].fields[i].type # nullptr
            /\ ctx.types[x].fields[j].type # nullptr
            /\ ctx.types[ctx.types[x].fields[i].type].kind = "Pointer"
            /\ ctx.types[ctx.types[x].fields[i].type].to = ctx.types[x].fields[j].type
            /\ ctx.types[ctx.types[x].fields[j].type].owner \in UserModules \ {ctx.types[x].owner}
            /\ ctx.types[x].fields[j].type \in Range(ctx.modules[ctx.types[x].owner].types)

\* C10: array types are interned on the pair (element type, optional fixed
\* size): the references T[] and T[n], and T[n] and T[m] with n different
\* from m, yield distinct Array types.
C10_ArraySizesDistinct ==
    \A t \in StructTypes :
        \A d \in DeclsOf(t) :
            \A i, j \in DOMAIN d.fields :
                (/\ d.fields[i].type.kind = "Array"
                 /\ d.fields[j].type.kind = "Array"
                 /\ d.fields[i].type.ref = d.fields[j].type.ref
                 /\ d.fields[i].type.arraySize # d.fields[j].type.arraySize
                 /\ ctx.types[t].fields[i].type # nullptr)
                    => ctx.types[t].fields[i].type # ctx.types[t].fields[j].type

\* The declaration the frame on top of Compiler::state has just built, and
\* the types it made of it.
JustBuilt == Building /\ fault = "none" /\ Top(Cur).pc > 1
LastDecl == Decls[Top(Cur).pc - 1]
TypesOfLast ==
    {t \in DOMAIN ctx.types :
        /\ ctx.types[t].owner = TopMod(Cur)
        /\ ctx.types[t].name = LastDecl.name
        /\ ctx.types[t].location = Loc(Top(Cur).unit, LastDecl.name, 0)}
\* what a type reference resolves to in the module on top, as seen from type t
Requested(ref, t) == resolveType(Cur, ref, t, NoLoc).v

\* C11: for every request, createSpecializedType returns a type whose
\* recorded base and recorded argument list are the requested base and
\* arguments: a field declared with a generic type reference has a
\* Specialized type whose ref and typeParams are what the reference's base
\* and arguments resolve to in the field's module.
C11_SpecializedAsRequested ==
    (JustBuilt /\ LastDecl.kind = "Struct") =>
        \A t \in TypesOfLast :
            \A i \in DOMAIN LastDecl.fields :
                (/\ LastDecl.fields[i].type.kind = "Generic"
                 /\ i \in DOMAIN ctx.types[t].fields
                 /\ ctx.types[t].fields[i].type # nullptr) =>
                    /\ ctx.types[ctx.types[t].fields[i].type].kind = "Specialized"
                    /\ ctx.types[ctx.types[t].fields[i].type].ref =
                            Requested(LastDecl.fields[i].type.ref[1], t)
                    /\ ctx.types[ctx.types[t].fields[i].type].typeParams =
                            [k \in DOMAIN LastDecl.fields[i].type.typeParams |->
                                Requested(LastDecl.fields[i].type.typeParams[k], t)]

\* C12: after compilation, a module's imports list contains each module
\* named by its import declarations exactly once, in declaration order: the
\* files of the modules it lists are the files its import declarations name
\* (those that were found and parsed), each once, in the order of the
\* declarations, and no two modules were made of one file.
Distinct(seq) == FoldL(LAMBDA acc, x : IF x \in Range(acc) THEN acc ELSE Append(acc, x), <<>>, seq)
ImportTargets(decls) ==
    FoldL(LAMBDA acc, d :
            IF d.kind = "Import" /\ d.name \in DOMAIN disk /\ disk[d.name].ok
            THEN Append(acc, d.name) ELSE acc,
          <<>>, decls)
ImportedFiles(m) == [i \in DOMAIN ctx.modules[m].imports |-> ctx.modules[ctx.modules[m].imports[i]].file]
C12_ImportsOnceInOrder ==
    (pc = "exited" /\ fault = "none") =>
        /\ \A m \in UserModules :
                ImportedFiles(m) = Distinct(ImportTargets(disk[ctx.modules[m].file].decls))
        /\ \A m, n \in UserModules : ctx.modules[m].file = ctx.modules[n].file => m = n

\* C13: binding an annotation with n arguments to an attribute with k
\* fields: if n > k an error is logged; otherwise argument i is the
\* translation of the i-th literal for i <= n and the default value of field
\* i for n < i <= k, and one error is logged for each field i > n that has no
\* default.  Stated of the build of a struct declaration with one annotation
\* that names an attribute.
AttrOf(anno) == requireTypeId(Cur, anno.name, nullptr, NoLoc).v
BindCase(d) ==
    /\ d.kind = "Struct" /\ Len(d.annotations) = 1 /\ d.customTag = ""
    /\ AttrOf(d.annotations[1]) # nullptr
    /\ ctx.types[AttrOf(d.annotations[1])].kind = "Attribute"
Bound(d, anno, attr, made, errors) ==
    IF Len(anno.args) > Len(ctx.types[attr].fields)
    THEN \E e \in Range(errors) : e.msg = "too many arguments for attribute"
    ELSE /\ Len(made.args) = Len(ctx.types[attr].fields)
         /\ \A i \in DOMAIN ctx.types[attr].fields :
                /\ i <= Len(anno.args) => made.args[i] = translateLiteral(Cur, anno.args[i], NoLoc).v
                /\ (i > Len(anno.args) /\ ctx.types[attr].fields[i].defaultValue # <<>>) =>
                        made.args[i] = ctx.types[attr].fields[i].defaultValue[1]
         /\ Cardinality({j \in DOMAIN errors : errors[j].msg = "missing parameter"})
                = Cardinality({i \in DOMAIN ctx.types[attr].fields :
                                i > Len(anno.args) /\ ctx.types[attr].fields[i].defaultValue = <<>>})
         /\ \A j \in DOMAIN errors : errors[j].msg = "missing parameter"
BuildBinds ==
    (AtDecl /\ BindCase(Decls[Top(Cur).pc]) /\ fault' = "none") =>
        Bound(Decls[Top(Cur).pc], Decls[Top(Cur).pc].annotations[1],
              AttrOf(Decls[Top(Cur).pc].annotations[1]),
              ctx'.types[Len(ctx.types) + 1].annotations[1],
              SelectSeq(SubSeq(log'.lines, Len(log.lines) + 1, Len(log'.lines)),
                        LAMBDA l : l.sev = "error"))
C13_ArgumentsBound == [][BuildBinds]_vars
\* a struct annotated with no argument for an attribute of two fields, the
\* second with a default, has been built: one error, and the default taken
C13_Witness ==
    /\ JustBuilt /\ LastDecl.kind = "Struct" /\ Len(LastDecl.annotations) = 1
    /\ LastDecl.annotations[1].args = <<>>
    /\ \E t \in TypesOfLast :
            /\ Len(ctx.types[t].annotations) = 1
            /\ ctx.types[t].annotations[1].args = <<VNull, VInt(1)>>
    /\ \E i \in ErrorLines : log.lines[i].msg = "missing parameter"

\* C14: if validation of the root module reports success, field names are
\* unique within every Struct, Union and Attribute type declared in that
\* module, the types declared inside nested namespaces included.
AggregatesOf(m) ==
    {t \in DOMAIN ctx.types :
        ctx.types[t].owner = m /\ ctx.types[t].kind \in {"Struct", "Union", "Attribute"}}
UniqueNames(fields) == \A i, j \in DOMAIN fields : fields[i].name = fields[j].name => i = j
C14_ValidMeansUnique ==
    (result.validated /\ result.valid) =>
        \A t \in AggregatesOf(ctx.rootModule) : UniqueNames(aggregateFields(ctx.types[t]))

\* The fields of the struct types of one module that are declared with a
\* type reference that is a name: <<type, field index, name>>.
RECURSIVE Flatten(_)
Flatten(decls) ==
    IF decls = <<>> THEN <<>>
    ELSE (IF Head(decls).kind = "Namespace" THEN Flatten(Head(decls).decls) ELSE <<Head(decls)>>)
         \o Flatten(Tail(decls))
StructDeclsOf(t) ==
    {d \in Range(Flatten(disk[ctx.types[t].location.file].decls)) :
        /\ d.kind = "Struct"
        /\ d.name = ctx.types[t].name
        /\ Len(d.fields) = Len(ctx.types[t].fields)}
NamedFields(m) ==
    UNION {UNION {{<<t, i, d.fields[i].type.name>> :
                        i \in {k \in DOMAIN d.fields : d.fields[k].type.kind = "Name"}} :
                    d \in StructDeclsOf(t)} :
            t \in {x \in StructTypes : ctx.types[x].owner = m}}
\* field f was built, and so its type resolved, before field g
Earlier(f, g) == f[1] < g[1] \/ (f[1] = g[1] /\ f[2] < g[2])
TypeOfField(f) == ctx.types[f[1]].fields[f[2]].type

\* C15 as stated: resolving the same qualified id twice in the same module
\* yields the same result, at any two points of the module's compilation and
\* from any two scopes: two fields of one module declared with the same type
\* name have the same type.
C15_SameResult ==
    \A m \in UserModules :
        \A f, g \in NamedFields(m) : f[3] = g[3] => TypeOfField(f) = TypeOfField(g)
\* C15 amended: once a resolution of a qualified id has succeeded in a
\* module, every later resolution of that id in the module yields the same
\* result, from any scope.
C15_SameResultOnceResolved ==
    \A m \in UserModules :
        \A f, g \in NamedFields(m) :
            (f[3] = g[3] /\ Earlier(f, g) /\ TypeOfField(f) # nullptr) =>
                TypeOfField(g) = TypeOfField(f)
\* a name resolved from a struct in a namespace and later from a struct in
\* the root namespace of the module
C15_Witness ==
    \E m \in UserModules :
        \E f, g \in NamedFields(m) :
            /\ f[3] = g[3] /\ Earlier(f, g) /\ TypeOfField(f) # nullptr
            /\ ctx.types[f[1]].scope # ctx.types[g[1]].scope
            /\ ctx.types[TypeOfField(f)].owner = m

\* C16: a struct field whose type is an enum E and whose default literal is
\* the simple name of an item of E compiles without error, and the field's
\* default is the value holding that item of E.
ItemNamed(e, name) == {k \in DOMAIN ctx.types[e].items : ctx.types[e].items[k].name = name}
SimpleName(init) == init # <<>> /\ init[1].kind = "id" /\ Len(init[1].id) = 1
C16_EnumDefault ==
    \A t \in StructTypes :
        \A d \in StructDeclsOf(t) :
            \A i \in DOMAIN d.fields :
                \A e \in {ctx.types[t].fields[i].type} \ {nullptr} :
                    (/\ ctx.types[e].kind = "Enum"
                     /\ SimpleName(d.fields[i].init)
                     /\ ItemNamed(e, d.fields[i].init[1].id[1]) # {}) =>
                        /\ \E k \in ItemNamed(e, d.fields[i].init[1].id[1]) :
                                ctx.types[t].fields[i].defaultValue = <<VEnum(e, k)>>
                        /\ \A l \in ErrorLines : log.lines[l].loc # ctx.types[t].fields[i].location

\* C17: for every declaration kind a custom tag can alias (struct, union,
\* alias, enum, const), a declaration introduced through the tag carries,
\* after its own annotations, all annotations of the use declaration in
\* their order, followed by exactly one $sapc.customtag annotation whose
\* single argument is the tag name.
BuiltOfLast ==
    {ctx.types[t] : t \in TypesOfLast}
    \cup {c \in Range(ctx.constants) :
            c.owner = TopMod(Cur) /\ c.location = Loc(Top(Cur).unit, LastDecl.name, 0)}
\* the use declaration that gave the file the tag of declaration d
UseOf(d) == Decls[CHOOSE j \in DOMAIN Decls :
                    /\ Decls[j].kind = "CustomTag" /\ Decls[j].name = d.customTag
                    /\ \A k \in 1..(j - 1) :
                            ~(Decls[k].kind = "CustomTag" /\ Decls[k].name = d.customTag)]
Carried(annos) == [i \in DOMAIN annos |-> [type |-> annos[i].type, args |-> annos[i].args]]
ThroughTag == JustBuilt /\ LastDecl.customTag # ""
C17_TagAnnotations ==
    ThroughTag =>
        /\ BuiltOfLast # {}
        /\ \A x \in BuiltOfLast :
                Carried(x.annotations) =
                    Carried(translateAnnotations(
                                Cur, LastDecl.annotations \o UseOf(LastDecl).annotations, NoLoc).v)
                    \o <<[type |-> compiler.customTagAttr, args |-> <<VStr(LastDecl.customTag)>>]>>

\* C19: for every input, including input that contains an unrecognized
\* byte, tokenize emits an Unknown token at each offending position,
\* continues lexing the rest of the input, and produces a token stream whose
\* last element is an EndOfFile token.
Lexed == lang = "text" /\ lexer.called
\* the positions of the bytes no token starts with, in a text without
\* string literals, comments and line breaks
Offending ==
    IF \E i \in DOMAIN lexer.source : lexer.source[i] \in {"\"", "#", "/", "\n"} THEN {}
    ELSE {i \in DOMAIN lexer.source : lexer.source[i] \in {"@", "\\"}}
UnknownAt(i) ==
    \E k \in DOMAIN lexer.tokens :
        lexer.tokens[k].type = "Unknown" /\ lexer.tokens[k].pos = [line |-> 1, column |-> i]
C19_UnknownThenEndOfFile ==
    Lexed =>
        /\ \A i \in Offending : UnknownAt(i)
        /\ lexer.tokens # <<>>
        /\ Last(lexer.tokens).type = "EndOfFile"

\* C20: tokenize reports a lexical error for a string literal that is not
\* closed before the end of the input, for any backslash escape other than
\* backslash-backslash and backslash-n, and for a `-` that is not followed
\* by a digit.
Quotes(text) == {i \in DOMAIN text : text[i] = "\""}
\* the text opens a string literal it does not close: every string literal
\* before position i is closed, the one opened at i is not
Unterminated(text) ==
    /\ Cardinality(Quotes(text)) % 2 = 1
    /\ \A i \in DOMAIN text : text[i] # "\\"
\* a backslash, not itself escaped, before a character other than \ and n
BadEscape(text) ==
    \E i \in 1..(Len(text) - 1) :
        /\ text[i] = "\\" /\ (i = 1 \/ text[i - 1] # "\\")
        /\ text[i + 1] \notin {"\\", "n"}
LoneMinus(text) ==
    \E i \in DOMAIN text :
        /\ text[i] = "-" /\ Quotes(SubSeq(text, 1, i)) = {}
        /\ (i = Len(text) \/ ~isDigit(text[i + 1]))
C20_LexicalErrors ==
    (Lexed /\ (Unterminated(lexer.source) \/ BadEscape(lexer.source) \/ LoneMinus(lexer.source)))
        => ~lexer.ok

\* C18: once `use NAME : KEYWORD;` has been processed in a file, or harvested
\* from a module that the file imports before the use site, every later
\* statement that begins with the identifier NAME is parsed as a declaration
\* of KEYWORD's kind; a statement that begins with an identifier that is not
\* a registered tag is a parse error.
TagsOf(decls) == {<<d.name, d.tagKind>> : d \in {x \in Range(decls) : x.kind = "CustomTag"}}
\* the use declarations processed so far: those of the file, and those of
\* the modules its import declarations brought in
Registered ==
    TagsOf(grammar.scopeStack[1].decls)
    \cup UNION {TagsOf(grammar.imported[i.name]) :
                    i \in {x \in Range(grammar.scopeStack[1].decls) :
                                x.kind = "Import" /\ x.name \in DOMAIN grammar.imported}}
\* the next statement begins with the identifier name
BeginsWith(name) ==
    /\ grammar.status = "run" /\ grammar.next < Len(grammar.tokens)
    /\ Data(grammar).type = "Identifier" /\ Data(grammar).dataString = name
\* the step added a declaration of the kind, with the tag, to the scope
Declared(tag, kind) ==
    \E scope \in DOMAIN grammar.scopeStack :
        /\ scope = Len(grammar.scopeStack) /\ scope = Len(grammar'.scopeStack)
        /\ Len(grammar'.scopeStack[scope].decls) = Len(grammar.scopeStack[scope].decls) + 1
        /\ Last(grammar'.scopeStack[scope].decls).kind = kind
        /\ Last(grammar'.scopeStack[scope].decls).customTag = tag
TagParses ==
    \A name \in {"t", "u"} :
        BeginsWith(name) =>
            /\ \A r \in Registered :
                    (r[1] = name /\ grammar'.status # "failed") => Declared(name, r[2])
            /\ (\A r \in Registered : r[1] # name) =>
                    /\ grammar'.status = "failed"
                    /\ Len(grammar'.log) > Len(grammar.log)
C18_TagParses == [][TagParses]_vars

\* What of a token the grammar reads: its type and its data.
Kinds(tokens) ==
    [k \in DOMAIN tokens |->
        [type |-> tokens[k].type, dataNumber |-> tokens[k].dataNumber,
         dataString |-> tokens[k].dataString]]
Kind(type, dataNumber, dataString) ==
    [type |-> type, dataNumber |-> dataNumber, dataString |-> dataString]
\* a text of words: identifier characters, blanks and semicolons only
WordText(text) == \A i \in DOMAIN text : isIdentChar(text[i]) \/ text[i] \in {" ", ";"}
ReservedAs(word) ==
    FirstIdx(tokenMap, LAMBDA m : m.keyword /\ m.text = word)
\* the tokens a text of words stands for: each longest run of identifier
\* characters that starts with a letter is one reserved word or one
\* identifier, each longest run of digits one number
RECURSIVE Expected(_)
Expected(text) ==
    IF text = <<>> THEN <<Kind("EndOfFile", 0, "")>>
    ELSE IF Head(text) = " " THEN Expected(Tail(text))
    ELSE IF Head(text) = ";" THEN <<Kind("SemiColon", 0, "")>> \o Expected(Tail(text))
    ELSE IF isDigit(Head(text))
    THEN Let(Until(text, 0, LAMBDA ch : ~isDigit(ch)),
             LAMBDA n :
                <<Kind("Number", Decimal(SubSeq(text, 1, n)), "")>>
                    \o Expected(SubSeq(text, n + 1, Len(text))))
    ELSE Let(Until(text, 0, LAMBDA ch : ~isIdentChar(ch)),
             LAMBDA n :
                (IF ReservedAs(SubSeq(text, 1, n)) # 0
                 THEN <<Kind(tokenMap[ReservedAs(SubSeq(text, 1, n))].token, 0, "")>>
                 ELSE <<Kind("Identifier", 0, Text(SubSeq(text, 1, n)))>>)
                    \o Expected(SubSeq(text, n + 1, Len(text))))

\* C21: a reserved word is lexed as a keyword token only when the character
\* after it is not an identifier character: an identifier that starts with a
\* reserved word is one Identifier token, a reserved word at the end of the
\* text is the keyword, and the lookup reads no position at or beyond the
\* length of the text.
C21_ReservedWords ==
    (Lexed /\ WordText(lexer.source)) =>
        /\ lexer.ok
        /\ Kinds(lexer.tokens) = Expected(lexer.source)
        /\ ~lexer.past

\* the two characters at positions i and i + 1 of the text (counted from 1)
Pair(text, i) == IF i + 1 <= Len(text) THEN SubSeq(text, i, i + 1) ELSE <<>>
\* the position after the comment that starts at position i of the text
\* (counted from 1): a line comment ends before the next line break, a block
\* comment after its first */
LineEnd(text, i) == Until(text, i - 1, LAMBDA ch : ch = "\n") + 1
BlockEnd(text, i) ==
    Let({j \in (i + 2)..(Len(text) - 1) : Pair(text, j) = <<"*", "/">>},
        LAMBDA ends :
            IF ends = {} THEN Len(text) + 1
            ELSE (CHOOSE j \in ends : \A k \in ends : j <= k) + 2)
\* the text with each comment replaced by a space, from position i on
RECURSIVE Uncommented(_, _)
Uncommented(text, i) ==
    IF i > Len(text) THEN <<>>
    ELSE IF text[i] = "#" \/ Pair(text, i) = <<"/", "/">>
    THEN <<" ">> \o Uncommented(text, LineEnd(text, i))
    ELSE IF Pair(text, i) = <<"/", "*">>
    THEN <<" ">> \o Uncommented(text, BlockEnd(text, i))
    ELSE <<text[i]>> \o Uncommented(text, i + 1)
HasComment(text) ==
    /\ Quotes(text) = {}
    /\ \E i \in DOMAIN text : text[i] = "#" \/ Pair(text, i) \in {<<"/", "/">>, <<"/", "*">>}

\* C22: comments produce no tokens and hide nothing else: the tokens of a
\* text are the tokens of the text with each comment replaced by a space,
\* so the character right after */ starts the next token.
C22_CommentsAsSpace ==
    (Lexed /\ HasComment(lexer.source)) =>
        Let(tokenize(Uncommented(lexer.source, 1), lexer.beyond),
            LAMBDA plain :
                /\ lexer.ok = plain.ok
                /\ Kinds(lexer.tokens) = Kinds(plain.tokens))

\* the declaration kind each introducing keyword stands for
Introduces ==
    [KeywordModule |-> "Module", KeywordImport |-> "Import", KeywordAttribute |-> "Attribute",
     KeywordUse |-> "CustomTag", KeywordConst |-> "Constant", KeywordStruct |-> "Struct",
     KeywordUnion |-> "Union", KeywordUsing |-> "Alias", KeywordEnum |-> "Enum"]
ModuleOnly == {"KeywordModule", "KeywordImport", "KeywordAttribute", "KeywordUse"}
\* the next statement begins with a token of the type
Begins(type) ==
    /\ grammar.status = "run" /\ grammar.next < Len(grammar.tokens)
    /\ Data(grammar).type = type
Nesting == Len(grammar.scopeStack)
\* the step added one declaration of the kind to the scope and logged nothing
Accepted(kind) ==
    /\ grammar'.status # "failed" /\ grammar'.log = grammar.log
    /\ Len(grammar'.scopeStack) = Nesting
    /\ Len(grammar'.scopeStack[Nesting].decls) = Len(grammar.scopeStack[Nesting].decls) + 1
    /\ Last(grammar'.scopeStack[Nesting].decls).kind = kind
\* the step opened a namespace and logged nothing
Opened ==
    /\ grammar'.status # "failed" /\ grammar'.log = grammar.log
    /\ Len(grammar'.scopeStack) = Nesting + 1
\* the step ended the parse with one error, at the token the statement
\* begins with, and declared nothing
Rejected ==
    /\ grammar'.status = "failed"
    /\ Len(grammar'.log) = Len(grammar.log) + 1
    /\ Last(grammar'.log).sev = "error"
    /\ Last(grammar'.log).loc = Data(grammar).pos
    /\ grammar'.scopeStack = grammar.scopeStack
ScopeRule ==
    /\ \A kw \in DOMAIN Introduces :
            Begins(kw) =>
                IF Nesting > 1 /\ kw \in ModuleOnly THEN Rejected ELSE Accepted(Introduces[kw])
    /\ Begins("KeywordNamespace") => Opened
    /\ (Begins("Identifier") /\ <<Data(grammar).dataString, "Struct">> \in Registered
            /\ \A r \in Registered : r[1] = Data(grammar).dataString => r[2] = "Struct") =>
            Accepted("Struct")

\* C23: at module scope every kind of declaration is accepted; inside a
\* namespace body, at any depth, module, import, attribute and use are
\* rejected with an error at the introducing keyword, and namespace, const,
\* struct, union, using, enum and custom-tagged declarations are accepted.
C23_ScopeRule == [][ScopeRule]_vars
\* a use declaration has just been rejected in a namespace inside a
\* namespace, with one error at its keyword
C23_Witness ==
    /\ grammar.status = "failed" /\ Len(grammar.scopeStack) = 3
    /\ Len(grammar.log) = 1 /\ grammar.next < Len(grammar.tokens)
    /\ grammar.tokens[grammar.next + 1].type = "KeywordUse"
    /\ Last(grammar.log).loc = grammar.tokens[grammar.next + 1].pos

\* the items as written between the braces of the enum declaration: the
\* name, and the value given (NoValue when none is)
RECURSIVE Written(_)
Written(tokens) ==
    IF tokens = <<>> \/ Head(tokens).type # "Identifier" THEN <<>>
    ELSE IF Len(tokens) >= 3 /\ tokens[2].type = "Equal"
    THEN <<[name |-> tokens[1].dataString, given |-> Valued(tokens[3].dataNumber)]>>
            \o Written(SubSeq(tokens, IF Len(tokens) >= 4 /\ tokens[4].type = "Comma" THEN 5 ELSE 4,
                             Len(tokens)))
    ELSE <<[name |-> tokens[1].dataString, given |-> NoValue]>>
            \o Written(SubSeq(tokens, IF Len(tokens) >= 2 /\ tokens[2].type = "Comma" THEN 3 ELSE 2,
                             Len(tokens)))
WrittenItems ==
    Written(SubSeq(grammar.tokens,
                   FirstIdx(grammar.tokens, LAMBDA t : t.type = "LeftBrace") + 1,
                   Len(grammar.tokens)))
\* the value of the i-th item written
RECURSIVE ValueOf(_, _)
ValueOf(items, i) ==
    IF items[i].given.given THEN items[i].given.n
    ELSE IF i = 1 THEN 0
    ELSE ValueOf(items, i - 1) + 1
NamedValues(items) == [i \in DOMAIN items |-> <<items[i].name, items[i].value>>]
ExpectedValues == [i \in DOMAIN WrittenItems |-> <<WrittenItems[i].name, ValueOf(WrittenItems, i)>>]
ParsedEnums == SelectSeq(grammar.scopeStack[1].decls, LAMBDA d : d.kind = "Enum")
SchemaEnums == SelectSeq(ctx.types, LAMBDA t : t.kind = "Enum")

\* C24: the first enum item without a value gets 0, an item written
\* `NAME = n` gets n, every other item the value of the item before it plus
\* one; the items of the schema enum have these values, in declaration order.
C24_EnumValues ==
    (grammar.status = "parsed" /\ Len(ParsedEnums) = 1) =>
        /\ NamedValues(ParsedEnums[1].items) = ExpectedValues
        /\ (pc \in {"compiled", "write", "exited"} /\ Len(SchemaEnums) = 1) =>
                NamedValues(SchemaEnums[1].items) = ExpectedValues
\* `A, B = 3, C` has been compiled to the items 0, 3, 4
C24_Witness ==
    /\ grammar.status = "parsed" /\ Len(ParsedEnums) = 1
    /\ [i \in DOMAIN WrittenItems |-> WrittenItems[i].given] = <<NoValue, Valued(3), NoValue>>
    /\ pc = "exited" /\ Len(SchemaEnums) = 1
    /\ NamedValues(SchemaEnums[1].items) = <<<<"A", 0>>, <<"B", 3>>, <<"C", 4>>>>

\* the namespaces from namespace ns outwards, the root namespace of the
\* module last
RECURSIVE Enclosing(_)
Enclosing(ns) ==
    IF ns = nullptr THEN <<>> ELSE <<ns>> \o Enclosing(ctx.namespaces[ns].scope)
\* the namespaces searched for a name used in type t, in the order of the
\* search: the enclosing namespaces from inner to outer, the roots of the
\* modules imported in import order, the root of the core module
SearchedFrom(t) ==
    Enclosing(ctx.types[t].scope)
        \o [i \in DOMAIN ctx.modules[ctx.types[t].owner].imports |->
                ctx.modules[ctx.modules[ctx.types[t].owner].imports[i]].root]
        \o (IF compiler.coreModule = nullptr THEN <<>>
            ELSE <<ctx.modules[compiler.coreModule].root>>)
\* the types of the namespace with the name that were declared before type t
NamedBefore(ns, name, t) ==
    {x \in Range(ctx.namespaces[ns].types) : ctx.types[x].name = name /\ x < t}
\* the type the name of field f stands for, searched innermost-first;
\* nullptr when no searched namespace has the name
InnermostFirst(f) ==
    Let(FirstIdx(SearchedFrom(f[1]), LAMBDA ns : NamedBefore(ns, f[3][1], f[1]) # {}),
        LAMBDA i :
            IF i = 0 THEN nullptr
            ELSE CHOOSE x \in NamedBefore(SearchedFrom(f[1])[i], f[3][1], f[1]) :
                    \A y \in NamedBefore(SearchedFrom(f[1])[i], f[3][1], f[1]) : x <= y)

\* C25: a qualified id is resolved innermost-first: the enclosing
\* namespaces from inner to outer, the module's root namespace, the root of
\* each imported module in import order, the core module last; a field
\* declared with a type name has the first type of that name in this order.
C25_InnermostFirst ==
    \A m \in UserModules :
        \A f \in NamedFields(m) : Len(f[3]) = 1 => TypeOfField(f) = InnermostFirst(f)

\* the type an array or pointer type is made of, through every level
RECURSIVE Stem(_)
Stem(u) ==
    IF u = nullptr THEN nullptr
    ELSE IF ctx.types[u].kind = "Array" THEN Stem(ctx.types[u].of)
    ELSE IF ctx.types[u].kind = "Pointer" THEN Stem(ctx.types[u].to)
    ELSE u
IsPlaceholder(u) == u # nullptr /\ ctx.types[u].kind = "Generic"
\* the types the declaration of type t refers to by name: the types of its
\* fields, and the target of an alias
RefersTo(t) ==
    {Stem(ctx.types[t].fields[i].type) : i \in DOMAIN ctx.types[t].fields}
        \cup (IF ctx.types[t].kind = "Alias" THEN {Stem(ctx.types[t].ref)} ELSE {})

\* C26: a generic type-parameter placeholder is visible only while resolving
\* inside the body of the aggregate that declares it: no other type, and no
\* declaration at module scope, refers to the placeholder, whichever names
\* were resolved earlier in the file.
C26_PlaceholderScoped ==
    \A t \in DOMAIN ctx.types :
        \A u \in RefersTo(t) : IsPlaceholder(u) => ctx.types[u].parent = t

\* C27: compilation of an importing module runs to completion and only
\* accumulates errors: it never dereferences a null type pointer, also when
\* it refers to a type of an imported module whose field type, member type
\* or annotation attribute did not resolve and was left null.
C27_NoNullDereference == fault # "nullderef"

\* C28: any two distinct types in a module's type list have distinct
\* qualified names, so the JSON `types` object, keyed by qualified name, has
\* one entry per type of the list.
C28_QualifiedNamesDistinct ==
    \A m \in UserModules :
        \A x, y \in Range(ctx.modules[m].types) :
            x # y => ctx.types[x].qualifiedName # ctx.types[y].qualifiedName

SpecializedTypes == {t \in DOMAIN ctx.types : ctx.types[t].kind = "Specialized"}
\* C29: a Specialized type is created only when the base of the type
\* reference is an aggregate declared with type parameters and the number of
\* type arguments is the number of its parameters.
C29_SpecializedOfGeneric ==
    \A t \in SpecializedTypes :
        /\ ctx.types[ctx.types[t].ref].kind \in {"Struct", "Union"}
        /\ ctx.types[ctx.types[t].ref].generics # <<>>
        /\ Len(ctx.types[t].typeParams) = Len(ctx.types[ctx.types[t].ref].generics)

\* The use declaration that registered the tag of the declaration just built
\* for the file on top: the first of that name among the declarations before
\* it, an import standing for the use declarations of the file it names.
Before ==
    Concat([i \in 1..(Top(Cur).pc - 2) |->
                IF Decls[i].kind = "Import"
                THEN IF Decls[i].name \in DOMAIN disk /\ disk[Decls[i].name].ok
                     THEN SelectSeq(disk[Decls[i].name].decls, LAMBDA d : d.kind = "CustomTag")
                     ELSE <<>>
                ELSE <<Decls[i]>>])
Registering ==
    Before[CHOOSE j \in DOMAIN Before :
                /\ Before[j].kind = "CustomTag" /\ Before[j].name = LastDecl.customTag
                /\ \A k \in 1..(j - 1) :
                        ~(Before[k].kind = "CustomTag" /\ Before[k].name = LastDecl.customTag)]
TaggedStruct == JustBuilt /\ LastDecl.kind = "Struct" /\ LastDecl.customTag # ""
\* C30: the annotations cloned onto a struct declared through a custom tag
\* are those of the use declaration that registered the tag for the file
\* being compiled (declared in it or in a module it imports), never those of
\* a use declaration of the same name in another module compiled earlier.
C30_AnnotationsOfRegisteringUse ==
    TaggedStruct =>
        \A t \in TypesOfLast :
            Carried(ctx.types[t].annotations) =
                Carried(translateAnnotations(
                            Cur, LastDecl.annotations \o Registering.annotations, NoLoc).v)
                \o <<[type |-> compiler.customTagAttr, args |-> <<VStr(LastDecl.customTag)>>]>>

====
